---- MODULE Spec2Model ----
(***************************************************************************)
(* A model of the stark-102 protocol engine: GF(17) arithmetic, dense      *)
(* polynomials, the Merkle commitment, the Fiat-Shamir channel, and the    *)
(* prover and verifier that thread them together.                          *)
(*                                                                         *)
(* A blake3 digest is modelled as the bracketed byte string it was         *)
(* computed from, so two digests are equal exactly when their inputs are   *)
(* (a collision-free hash).  The bytes of a digest, which the channel      *)
(* reads to draw challenges, are supplied by the variable oracle.          *)
(***************************************************************************)
EXTENDS Integers, Sequences, FiniteSets, TLC

VARIABLES
    \* field.rs: the operands of one operation on BaseField values, the
    \* operation applied and what it produced
    fop, fa, fb, fres, fpanic, fovf,
    \* the protocol: where the run is, the proof handed to verify, the bytes
    \* of the digests read so far, the prover's result and local values, how
    \* the proof was changed after the prover made it, the verifier's result
    pc, proof, oracle, prover, tamper, vres,
    \* merkle.rs: where the run is, the leaf values the tree is built over,
    \* the index opened, the value and the path handed to verify_inclusion
    \* with the root, how they were changed, and what verify_inclusion
    \* returned
    mpc, tree_values, leaf_index, leaf_value, merkle_path, merkle_root, mtamper,
    included,
    \* channel.rs: two channels, the calls the first received, how many of
    \* them the second received so far, and the values their draws returned
    channel_a, channel_b, ops, replayed, draws_a, draws_b,
    \* poly.rs, constraints.rs, domain.rs: the operation applied, its
    \* arguments and what it produced
    poly_op, poly_in, poly_out

fieldVars == <<fop, fa, fb, fres, fpanic, fovf>>

protocolVars == <<pc, proof, prover, tamper, vres>>

merkleVars ==
    <<mpc, tree_values, leaf_index, leaf_value, merkle_path, merkle_root, mtamper,
      included>>

channelVars == <<channel_a, channel_b, ops, replayed, draws_a, draws_b>>

polyVars == <<poly_op, poly_in, poly_out>>

vars == <<fieldVars, protocolVars, merkleVars, channelVars, polyVars, oracle>>

\* the variables of the parts a specification does not exercise stay idle
IdleField ==
    /\ fop = "none"
    /\ fa = 0
    /\ fb = 0
    /\ fres = 0
    /\ fpanic = FALSE
    /\ fovf = FALSE

IdleProtocol ==
    /\ pc = "idle"
    /\ proof = <<>>
    /\ prover = <<>>
    /\ tamper = "none"
    /\ vres = <<>>

IdleMerkle ==
    /\ mpc = "idle"
    /\ tree_values = <<>>
    /\ leaf_index = 0
    /\ leaf_value = 0
    /\ merkle_path = <<>>
    /\ merkle_root = <<>>
    /\ mtamper = "none"
    /\ included = FALSE

IdleChannel ==
    /\ channel_a = <<>>
    /\ channel_b = <<>>
    /\ ops = <<>>
    /\ replayed = 0
    /\ draws_a = <<>>
    /\ draws_b = <<>>

IdlePoly ==
    /\ poly_op = "idle"
    /\ poly_in = <<>>
    /\ poly_out = <<>>

(***************************************************************************)
(* src/field.rs                                                            *)
(***************************************************************************)

PRIME == 17

\* The values a BaseField can hold.
GF == 0 .. (PRIME - 1)

\* u8 arithmetic: the value a release build keeps, and whether the exact
\* result left the range of u8 (a debug build panics there).
U8Wrap(n) == n % 256

InU8(n) == n >= 0 /\ n <= 255

\* BaseField::new and From<u8>
from_u8(element) == element % PRIME

\* i32 remainder, truncated toward zero as in Rust
I32Rem(n, m) ==
    LET r == n % m
    IN  IF n >= 0 \/ r = 0 THEN r ELSE r - m

\* a plausible slip: the remainder narrowed to u8 without the shift by PRIME
from_i32_unshifted(num) == from_u8(U8Wrap(I32Rem(num, PRIME)))

\* From<i32>: num % 17, + 17, as u8, then From<u8>
from_i32(num) == from_u8(U8Wrap(I32Rem(num, PRIME) + PRIME))

\* i32 arithmetic: whether a value is in the range of i32
InI32(n) == n >= -2147483647 - 1 /\ n <= 2147483647

\* whether the addition of From<i32> leaves i32, or `as u8` drops bits
from_i32_overflows(num) ==
    \/ ~InI32(I32Rem(num, PRIME) + PRIME)
    \/ ~InU8(I32Rem(num, PRIME) + PRIME)

add(a, b) == U8Wrap(a + b) % PRIME

add_overflows(a, b) == ~InU8(a + b)

sub(a, b) == U8Wrap(U8Wrap(a + PRIME) - b) % PRIME

sub_overflows(a, b) == ~InU8(a + PRIME) \/ ~InU8(U8Wrap(a + PRIME) - b)

\* a plausible slip: the natural product in u8, which wraps at 16 * 16
mul_natural(a, b) == U8Wrap(a * b) % PRIME

mul(a, b) ==
    IF a = 0 \/ b = 0
    THEN 0
    ELSE LET mul_minus_one == U8Wrap(a * U8Wrap(b - 1)) % PRIME
         IN  U8Wrap(mul_minus_one + a) % PRIME

mul_overflows(a, b) ==
    /\ a # 0
    /\ b # 0
    /\ \/ ~InU8(b - 1)
       \/ ~InU8(a * U8Wrap(b - 1))
       \/ ~InU8((U8Wrap(a * U8Wrap(b - 1)) % PRIME) + a)

\* exp: result = 1; for _ in 0..exponent { result *= self }
RECURSIVE exp(_, _)
exp(a, exponent) ==
    IF exponent = 0 THEN 1 ELSE mul(exp(a, exponent - 1), a)

\* The loop of log: i runs over 1..PRIME-1, result holds base^(i-1) on entry.
\* Returns PRIME when the loop ends without a match (the panic).
RECURSIVE log_loop(_, _, _, _)
log_loop(x, base, i, result) ==
    IF i >= PRIME
    THEN PRIME
    ELSE LET r == mul(result, base)
         IN  IF r = x THEN i ELSE log_loop(x, base, i + 1, r)

\* whether one of the multiplications of exp overflows its u8
RECURSIVE exp_overflows(_, _)
exp_overflows(a, exponent) ==
    /\ exponent # 0
    /\ \/ exp_overflows(a, exponent - 1)
       \/ mul_overflows(exp(a, exponent - 1), a)

log(x, base) == IF x = 1 THEN 0 ELSE log_loop(x, base, 1, 1)

log_panics(x, base) == x = 0 \/ log(x, base) >= PRIME

\* a plausible slip: the inverse taken as g^i instead of g^(16-i)
mult_inv_same_power(a) ==
    IF a = 0 THEN 0 ELSE exp(from_i32(3), log(a, from_i32(3)))

\* mult_inv asserts that self is not zero, and log panics when it finds no
\* exponent; the value is 0 where the call panics
mult_inv_panics(a) == a = 0 \/ log_panics(a, from_i32(3))

mult_inv(a) ==
    LET generator == from_i32(3)
        i == log(a, generator)
    IN  IF a = 0 \/ i >= PRIME
        THEN 0
        ELSE exp(generator, U8Wrap((PRIME - 1) - i))

\* Div panics on a zero divisor, returns a zero dividend as it is, and
\* otherwise multiplies by the inverse; the value is 0 where the call panics
div_panics(a, b) == b = 0 \/ (a # 0 /\ mult_inv_panics(b))

div(a, b) ==
    IF b = 0
    THEN 0
    ELSE IF a = 0 THEN a ELSE mul(a, mult_inv(b))

\* a plausible slip: the complement to PRIME - 1 instead of to PRIME
minus_complement(a) == (PRIME - 1) - a

minus(a) == mul(from_i32(-1), a)

minus_overflows(a) == mul_overflows(from_i32(-1), a)

(***************************************************************************)
(* src/poly.rs: a polynomial is its coefficient list [a_0, ..., a_d]       *)
(***************************************************************************)

Min(m, n) == IF m <= n THEN m ELSE n

Polynomial_zero == <<0>>

Polynomial_one == <<1>>

\* a plausible slip: the number of coefficients taken for the degree
degree_as_len(p) == Len(p)

degree(p) == Len(p) - 1

\* eval: result = 0; for (i, coeff): result += coeff * x.exp(i)
RECURSIVE eval_loop(_, _, _)
eval_loop(p, x, n) ==
    IF n = 0
    THEN 0
    ELSE add(eval_loop(p, x, n - 1), mul(p[n], exp(x, U8Wrap(n - 1))))

eval(p, x) == eval_loop(p, x, Len(p))

eval_domain(p, domain) == [k \in 1 .. Len(domain) |-> eval(p, domain[k])]

\* a plausible slip: the longer operand's tail is dropped
poly_add_truncating(p, q) ==
    [k \in 1 .. Min(Len(p), Len(q)) |-> add(p[k], q[k])]

\* Add: the common prefix is summed, then the longer operand's tail is appended
poly_add(p, q) ==
    LET min_coeffs_len == Min(Len(p), Len(q))
        coefficients_sum == [k \in 1 .. min_coeffs_len |-> add(p[k], q[k])]
    IN  coefficients_sum
            \o SubSeq(p, min_coeffs_len + 1, Len(p))
            \o SubSeq(q, min_coeffs_len + 1, Len(q))

\* Mul: mul_coeffs[idx_lhs + idx_rhs] += coeff_lhs * coeff_rhs, here the sum
\* that lands on position k (1-based), accumulated over idx_lhs = 1 .. n
RECURSIVE mul_coeff(_, _, _, _)
mul_coeff(p, q, k, n) ==
    IF n = 0
    THEN 0
    ELSE LET j == k - n + 1
             rest == mul_coeff(p, q, k, n - 1)
         IN  IF j >= 1 /\ j <= Len(q) THEN add(rest, mul(p[n], q[j])) ELSE rest

poly_mul(p, q) ==
    LET mul_degree == degree(p) + degree(q)
    IN  [k \in 1 .. (mul_degree + 1) |-> mul_coeff(p, q, k, Len(p))]

\* Mul<BaseField>: multiplication by the degree-0 polynomial [rhs]
poly_scalar_mul(p, rhs) == poly_mul(p, <<rhs>>)

\* Div<BaseField>: self * rhs.mult_inv()
poly_scalar_div(p, rhs) == poly_scalar_mul(p, mult_inv(rhs))

\* The loop of partial_lagrange_poly over the first n domain elements:
\* numerator *= (x - x_k), denominator *= (x_j - x_k) for each x_k # x_j
RECURSIVE lagrange_terms(_, _, _)
lagrange_terms(x_j, domain, n) ==
    IF n = 0
    THEN [numerator |-> Polynomial_one, denominator |-> 1]
    ELSE LET acc == lagrange_terms(x_j, domain, n - 1)
             domain_ele == domain[n]
         IN  IF x_j # domain_ele
             THEN [numerator |-> poly_mul(acc.numerator, <<minus(domain_ele), from_i32(1)>>),
                   denominator |-> mul(acc.denominator, sub(x_j, domain_ele))]
             ELSE acc

\* a plausible slip: the numerator is not divided by the denominator
partial_lagrange_poly_undivided(j, domain, evaluations) ==
    poly_scalar_mul(lagrange_terms(domain[j + 1], domain, Len(domain)).numerator,
                    evaluations[j + 1])

\* j is the 0-based index of the sample
partial_lagrange_poly(j, domain, evaluations) ==
    LET x_j == domain[j + 1]
        y_j == evaluations[j + 1]
        t == lagrange_terms(x_j, domain, Len(domain))
    IN  poly_scalar_div(poly_scalar_mul(t.numerator, y_j), t.denominator)

\* Sum: total = zero(); total += poly for each partial polynomial
RECURSIVE lagrange_sum(_, _, _)
lagrange_sum(domain, evaluations, n) ==
    IF n = 0
    THEN Polynomial_zero
    ELSE poly_add(lagrange_sum(domain, evaluations, n - 1),
                  partial_lagrange_poly(n - 1, domain, evaluations))

\* lagrange_interp returns Err when the lengths differ
lagrange_interp_err(domain, evaluations) == Len(domain) # Len(evaluations)

\* the polynomial of Ok(..); <<>> stands for no polynomial
lagrange_interp(domain, evaluations) ==
    IF Len(domain) # Len(evaluations)
    THEN <<>>
    ELSE lagrange_sum(domain, evaluations, Len(domain))

\* step_by(2) from the first and from the second coefficient
even_coeffs(p) == [k \in 1 .. ((Len(p) + 1) \div 2) |-> p[2 * k - 1]]

odd_coeffs(p) == [k \in 1 .. (Len(p) \div 2) |-> p[2 * k]]

\* a plausible slip: the assertion only excludes the empty list
poly_fri_step_panics_on_empty(p) == ~(Len(p) > 0)

\* Polynomial::fri_step; it asserts that there is more than one coefficient
poly_fri_step_panics(p) == ~(Len(p) > 1)

\* a plausible slip: the odd part is added without the factor beta
poly_fri_step_unscaled(p, beta) == poly_add(even_coeffs(p), odd_coeffs(p))

poly_fri_step(p, beta) ==
    poly_add(even_coeffs(p), poly_scalar_mul(odd_coeffs(p), beta))

(***************************************************************************)
(* src/util.rs, src/merkle.rs                                              *)
(***************************************************************************)

\* n & m on non-negative integers
RECURSIVE BitAnd(_, _)
BitAnd(n, m) ==
    IF n = 0 \/ m = 0
    THEN 0
    ELSE (n % 2) * (m % 2) + 2 * BitAnd(n \div 2, m \div 2)

is_power_of_2(n) == IF n = 0 THEN FALSE ELSE BitAnd(n, n - 1) = 0

\* blake3 over a byte string: the digest is the bracketed input, so that
\* equal digests have equal inputs.  -1 and -2 are the brackets; no byte,
\* field element or counter byte is negative.
hash(bytes) == <<-1>> \o bytes \o <<-2>>

as_byte(element) == element

\* the hash a leaf holds: blake3::hash(&[ele.as_byte()])
leaf_hash(element) == hash(<<as_byte(element)>>)

\* Hasher::new, update(first), update(second), finalize
hash_pair(first, second) == hash(first \o second)

\* one round of the construction loop: as_chunks_mut::<2>() pairs the nodes
\* left to right (a trailing unpaired node is dropped)
next_layer(layer) ==
    [k \in 1 .. (Len(layer) \div 2) |-> hash_pair(layer[2 * k - 1], layer[2 * k])]

\* the hashes of every layer, leaves first, the root's layer last
RECURSIVE build_layers(_)
build_layers(layer) ==
    IF Len(layer) > 1
    THEN <<layer>> \o build_layers(next_layer(layer))
    ELSE <<layer>>

MerkleTree_new_panics(leaf_values) == ~is_power_of_2(Len(leaf_values))

\* A node is (level, index): level 1 holds the leaves, index counts from 0.
\* The parent of (level, index) is (level + 1, index \div 2); the nodes of
\* the last layer have no parent.
MerkleTree_new(leaf_values) ==
    LET leaves == [k \in 1 .. Len(leaf_values) |-> leaf_hash(leaf_values[k])]
        layers == build_layers(leaves)
    IN  [layers |-> layers, root |-> layers[Len(layers)][1]]

leaves_len(merkle_tree) == Len(merkle_tree.layers[1])

\* a plausible slip: the walk stops one layer below the root
has_parent_below_root(merkle_tree, level) == level + 1 < Len(merkle_tree.layers)

has_parent(merkle_tree, level) == level < Len(merkle_tree.layers)

node_hash(merkle_tree, level, index) == merkle_tree.layers[level][index + 1]

\* a plausible slip: the sibling's side taken from the wrong child
sibling_swapped(merkle_tree, level, index) ==
    LET left_index == 2 * (index \div 2)
    IN  IF node_hash(merkle_tree, level, left_index) = node_hash(merkle_tree, level, index)
        THEN [hash |-> node_hash(merkle_tree, level, left_index), position |-> "Left"]
        ELSE [hash |-> node_hash(merkle_tree, level, left_index + 1), position |-> "Right"]

\* Node::sibling: nodes are compared by their hash (PartialEq of LeafNode and
\* InternalNode), so "I am the left child" is "my hash is the left child's"
sibling(merkle_tree, level, index) ==
    LET left_index == 2 * (index \div 2)
        sibling_position ==
            IF node_hash(merkle_tree, level, left_index) = node_hash(merkle_tree, level, index)
            THEN "Right"
            ELSE "Left"
    IN  IF sibling_position = "Left"
        THEN [hash |-> node_hash(merkle_tree, level, left_index), position |-> "Left"]
        ELSE [hash |-> node_hash(merkle_tree, level, left_index + 1), position |-> "Right"]

\* the walk of MerklePath::new from (level, index) up to the root
RECURSIVE path_from(_, _, _)
path_from(merkle_tree, level, index) ==
    IF has_parent(merkle_tree, level)
    THEN <<sibling(merkle_tree, level, index)>>
             \o path_from(merkle_tree, level + 1, index \div 2)
    ELSE <<>>

\* MerklePath::new returns Err when the index is out of bounds
MerklePath_new_err(merkle_tree, index) == index >= leaves_len(merkle_tree)

\* the path of Ok(..); <<>> stands for no path
MerklePath_new(merkle_tree, index) ==
    IF index >= leaves_len(merkle_tree)
    THEN <<>>
    ELSE path_from(merkle_tree, 1, index)

\* the loop of verify_inclusion over the first n entries of the path
RECURSIVE inclusion_hash(_, _, _)
inclusion_hash(element, path, n) ==
    IF n = 0
    THEN hash(<<as_byte(element)>>)
    ELSE LET current_hash == inclusion_hash(element, path, n - 1)
         IN  IF path[n].position = "Left"
             THEN hash_pair(path[n].hash, current_hash)
             ELSE hash_pair(current_hash, path[n].hash)

\* a plausible slip: the sibling always hashed second
verify_inclusion_ignoring_side(element, path, root) ==
    LET RECURSIVE h(_)
        h(n) == IF n = 0
                THEN hash(<<as_byte(element)>>)
                ELSE hash_pair(h(n - 1), path[n].hash)
    IN  root = h(Len(path))

verify_inclusion(element, path, root) ==
    root = inclusion_hash(element, path, Len(path))

(***************************************************************************)
(* src/channel.rs                                                          *)
(***************************************************************************)

CHANNEL_SALT == <<42>>

\* n.to_le_bytes() for an integer of `width` bytes
RECURSIVE to_le_bytes(_, _)
to_le_bytes(n, width) ==
    IF width = 0 THEN <<>> ELSE <<n % 256>> \o to_le_bytes(n \div 256, width - 1)

\* The first four bytes of a digest, read as a little-endian i32.  The
\* oracle orc fixes them for the digests it knows; any other digest has the
\* bytes DefaultBytes gives it (a checksum of its input).
RECURSIVE Checksum(_, _, _)
Checksum(bytes, from, to) ==
    IF from = to
    THEN bytes[from] + 2
    ELSE LET mid == (from + to) \div 2
         IN  (Checksum(bytes, from, mid) * 3 + Checksum(bytes, mid + 1, to)) % 251

DefaultBytes(digest) == Checksum(digest, 1, Len(digest))

first_4_bytes(orc, digest) ==
    IF digest \in DOMAIN orc THEN orc[digest] ELSE DefaultBytes(digest)

\* the first byte of the digest: the low byte of the little-endian i32
first_byte(orc, digest) == first_4_bytes(orc, digest) % 256

\* The oracle with the bytes of `digest` fixed to `bytes`, unless it already
\* fixes them: a digest has the same bytes every time it is read.
Bind(orc, digest, bytes) ==
    IF digest \in DOMAIN orc THEN orc ELSE orc @@ (digest :> bytes)

Channel_new ==
    [current_hash |-> hash(CHANNEL_SALT), count |-> 0, commitments |-> <<>>]

\* a plausible slip: the commitment is put in front of the list
commit_prepending(channel, commitment) ==
    [channel EXCEPT
        !.commitments = <<commitment>> \o @,
        !.current_hash = hash_pair(channel.current_hash, commitment)]

commit(channel, commitment) ==
    [channel EXCEPT
        !.commitments = Append(@, commitment),
        !.current_hash = hash_pair(channel.current_hash, commitment)]

\* a plausible slip: the counter is not absorbed, so the digest does not move
\* between two draws
rehash_after_draw_no_hash(channel) ==
    [channel EXCEPT !.count = @ + 1]

rehash_after_draw(channel) ==
    [channel EXCEPT
        !.current_hash = hash_pair(channel.current_hash, to_le_bytes(channel.count, 8)),
        !.count = @ + 1]

\* ret is the value returned, channel the channel afterwards
random_element(channel, orc) ==
    [ret |-> from_i32(first_4_bytes(orc, channel.current_hash)),
     channel |-> rehash_after_draw(channel)]

\* a plausible slip: the bound taken as inclusive
random_integer_inclusive(channel, orc, upper_bound) ==
    [ret |-> first_byte(orc, channel.current_hash) % (upper_bound + 1),
     channel |-> rehash_after_draw(channel)]

\* `% upper_bound` panics on a zero bound (remainder by zero)
random_integer_panics(upper_bound) == upper_bound = 0

random_integer(channel, orc, upper_bound) ==
    [ret |-> first_byte(orc, channel.current_hash) % upper_bound,
     channel |-> rehash_after_draw(channel)]

finalize(channel) == channel.commitments

(***************************************************************************)
(* src/domain.rs, src/field.rs (CyclicGroup), src/trace.rs,                *)
(* src/constraints.rs                                                      *)
(***************************************************************************)

DOMAIN_TRACE == <<from_u8(1), from_u8(13), from_u8(16), from_u8(4)>>

DOMAIN_LDE ==
    <<from_u8(3), from_u8(10), from_u8(5), from_u8(11),
      from_u8(14), from_u8(7), from_u8(12), from_u8(6)>>

\* a plausible slip: the elements are moved by adding g
shift_additive(elements, g) == [k \in 1 .. Len(elements) |-> add(elements[k], g)]

shift(elements, g) == [k \in 1 .. Len(elements) |-> mul(elements[k], g)]

\* CyclicGroup::new returns Err for an unsupported size
CyclicGroup_new_err(size) == size # 4 /\ size # 8

\* a plausible slip: the order-8 subgroup itself, not its coset
CyclicGroup_new_unshifted(size) ==
    IF size # 4 /\ size # 8
    THEN <<>>
    ELSE IF size = 4
         THEN <<1, 13, 16, 4>>
         ELSE <<1, 9, 13, 15, 16, 8, 4, 2>>

\* the elements of Ok(..); <<>> stands for no group
CyclicGroup_new(size) ==
    IF size # 4 /\ size # 8
    THEN <<>>
    ELSE IF size = 4
         THEN <<from_i32(1), from_i32(13), from_i32(16), from_i32(4)>>
         ELSE shift(<<from_i32(1), from_i32(9), from_i32(13), from_i32(15),
                      from_i32(16), from_i32(8), from_i32(4), from_i32(2)>>,
                    from_i32(3))

\* BaseField::square: the product is taken in u8 without the trick of mul
square(a) == U8Wrap(a * a) % PRIME

square_overflows(a) == ~InU8(a * a)

TRACE_FIRST_ELEMENT == from_u8(3)

\* out_trace after n rounds of the loop
RECURSIVE trace_loop(_)
trace_loop(n) ==
    IF n = 0
    THEN <<TRACE_FIRST_ELEMENT>>
    ELSE LET out_trace == trace_loop(n - 1)
         IN  Append(out_trace, square(out_trace[Len(out_trace)]))

generate_trace == trace_loop(3)

\* a plausible slip: a wrong constant coefficient
boundary_constraint_wrong_constant == <<from_i32(8), from_i32(15), from_i32(13)>>

boundary_constraint == <<from_i32(14), from_i32(15), from_i32(13)>>

transition_constraint == <<from_i32(16), from_i32(9), from_i32(12), from_i32(1)>>

\* p.scalar_mul(alpha), a method poly.rs does not define, is taken to be
\* p *= alpha, the multiplication by a scalar that poly.rs does define
composition_polynomial(alpha_0, alpha_1) ==
    LET p0 == poly_scalar_mul(boundary_constraint, alpha_0)
        p1 == poly_scalar_mul(transition_constraint, alpha_1)
    IN  poly_add(p0, p1)

(***************************************************************************)
(* src/prover.rs                                                           *)
(***************************************************************************)

\* a plausible slip: the whole domain is squared, not its first half
fri_step_whole_domain(domain, polynomial, beta) ==
    [domain |-> [k \in 1 .. Len(domain) |-> exp(domain[k], 2)],
     polynomial |-> poly_fri_step(polynomial, beta)]

\* fri_step of the prover: the next domain is the first half of the domain,
\* squared; the next polynomial is Polynomial::fri_step
fri_step(domain, polynomial, beta) ==
    [domain |-> [k \in 1 .. (Len(domain) \div 2) |-> exp(domain[k], 2)],
     polynomial |-> poly_fri_step(polynomial, beta)]

\* the index of cp(-x) and of the layer-1 value at -x^2 for a query index
query_idx_minus_x(query_idx) == (query_idx + 4) % 8

\* a plausible slip: the neighbour in the layer-1 domain taken for -x^2
query_idx_fri_1_minus_x_neighbour(query_idx) == ((query_idx % 4) + 1) % 4

query_idx_fri_1_minus_x(query_idx) == ((query_idx % 4) + 2) % 4

\* the slice reads and the expect/unwrap calls that can panic
generate_query_phase_panics(query_idx, trace_lde, trace_lde_merkleized, cp_lde, cp_lde_merkleized, fri_layer_deg_1_eval, fri_layer_deg_1_merkleized) ==
    \/ query_idx >= Len(trace_lde)
    \/ MerklePath_new_err(trace_lde_merkleized, query_idx)
    \/ query_idx + 2 >= Len(trace_lde)
    \/ MerklePath_new_err(trace_lde_merkleized, query_idx + 2)
    \/ query_idx_minus_x(query_idx) >= Len(cp_lde)
    \/ MerklePath_new_err(cp_lde_merkleized, query_idx_minus_x(query_idx))
    \/ query_idx_fri_1_minus_x(query_idx) >= Len(fri_layer_deg_1_eval)
    \/ MerklePath_new_err(fri_layer_deg_1_merkleized, query_idx_fri_1_minus_x(query_idx))

\* a plausible slip: cp is opened at x instead of -x
generate_query_phase_cp_at_x(query_idx, trace_lde, trace_lde_merkleized, cp_lde, cp_lde_merkleized, fri_layer_deg_1_eval, fri_layer_deg_1_merkleized, fri_layer_deg_0_eval) ==
    [trace_x |-> [value |-> trace_lde[query_idx + 1],
                  path |-> MerklePath_new(trace_lde_merkleized, query_idx)],
     trace_gx |-> [value |-> trace_lde[query_idx + 2 + 1],
                   path |-> MerklePath_new(trace_lde_merkleized, query_idx + 2)],
     cp_minus_x |-> [value |-> cp_lde[query_idx + 1],
                     path |-> MerklePath_new(cp_lde_merkleized, query_idx)],
     fri_layer_deg_1_minus_x |->
         [value |-> fri_layer_deg_1_eval[query_idx_fri_1_minus_x(query_idx) + 1],
          path |-> MerklePath_new(fri_layer_deg_1_merkleized,
                                  query_idx_fri_1_minus_x(query_idx))],
     fri_layer_deg_0_x |-> fri_layer_deg_0_eval]

\* an opening is the pair (value, path) of the proof
generate_query_phase(query_idx, trace_lde, trace_lde_merkleized, cp_lde, cp_lde_merkleized, fri_layer_deg_1_eval, fri_layer_deg_1_merkleized, fri_layer_deg_0_eval) ==
    [trace_x |-> [value |-> trace_lde[query_idx + 1],
                  path |-> MerklePath_new(trace_lde_merkleized, query_idx)],
     trace_gx |-> [value |-> trace_lde[query_idx + 2 + 1],
                   path |-> MerklePath_new(trace_lde_merkleized, query_idx + 2)],
     cp_minus_x |-> [value |-> cp_lde[query_idx_minus_x(query_idx) + 1],
                     path |-> MerklePath_new(cp_lde_merkleized,
                                             query_idx_minus_x(query_idx))],
     fri_layer_deg_1_minus_x |->
         [value |-> fri_layer_deg_1_eval[query_idx_fri_1_minus_x(query_idx) + 1],
          path |-> MerklePath_new(fri_layer_deg_1_merkleized,
                                  query_idx_fri_1_minus_x(query_idx))],
     fri_layer_deg_0_x |-> fri_layer_deg_0_eval]

\* The trace polynomial and its low-degree extension do not depend on the
\* channel.
trace_polynomial == lagrange_interp(DOMAIN_TRACE, generate_trace)

trace_lde == eval_domain(trace_polynomial, DOMAIN_LDE)

\* generate_proof.  orc is the oracle before the call and digest_bytes the
\* bytes of the five digests the channel reads, in the order it reads them
\* (used for the digests orc does not fix yet).  The result holds the proof,
\* the oracle afterwards, the panic that stopped the prover ("none" if none),
\* and the prover's local values.
\* channel.random_element() in the prover, at a digest whose first bytes the
\* oracle fixes now (to `bytes`, unless it already fixes them)
prover_random_element(channel, orc, bytes) ==
    [draw |-> random_element(channel, Bind(orc, channel.current_hash, bytes)),
     orc |-> Bind(orc, channel.current_hash, bytes)]

prover_random_integer(channel, orc, bytes, upper_bound) ==
    [draw |-> random_integer(channel, Bind(orc, channel.current_hash, bytes), upper_bound),
     orc |-> Bind(orc, channel.current_hash, bytes)]

\* generate_proof is translated section by section.  Each section takes the
\* record st of what the sections before it computed and returns it with
\* its own values added; panic names the first unwrap or assertion that
\* fails ("none" when none does).

\* "Trace": the low-degree extension is merkleized and its root committed
prove_trace(orc) ==
    LET trace_lde_merkleized == MerkleTree_new(trace_lde)
    IN  [panic |->
             IF lagrange_interp_err(DOMAIN_TRACE, generate_trace)
             THEN "lagrange_interp unwrap"
             ELSE IF MerkleTree_new_panics(trace_lde)
             THEN "Merkle tree expects leaves to be power of 2"
             ELSE "none",
         orc |-> orc,
         trace_lde_merkleized |-> trace_lde_merkleized,
         channel |-> commit(Channel_new, trace_lde_merkleized.root)]

\* "Composition polynomial": alpha_0 and alpha_1 are drawn
prove_alphas(st, digest_bytes) ==
    LET alpha_0 == prover_random_element(st.channel, st.orc, digest_bytes[1])
        alpha_1 == prover_random_element(alpha_0.draw.channel, alpha_0.orc,
                                         digest_bytes[2])
    IN  [alpha_0 |-> alpha_0.draw.ret,
         alpha_1 |-> alpha_1.draw.ret,
         orc |-> alpha_1.orc,
         channel |-> alpha_1.draw.channel] @@ st

\* cp is built, extended and merkleized, and the root committed
prove_cp(st) ==
    LET cp == composition_polynomial(st.alpha_0, st.alpha_1)
        cp_lde == eval_domain(cp, DOMAIN_LDE)
        cp_lde_merkleized == MerkleTree_new(cp_lde)
    IN  [panic |->
             IF st.panic = "none" /\ MerkleTree_new_panics(cp_lde)
             THEN "Merkle tree expects leaves to be power of 2"
             ELSE st.panic,
         cp |-> cp,
         cp_lde |-> cp_lde,
         cp_lde_merkleized |-> cp_lde_merkleized,
         channel |-> commit(st.channel, cp_lde_merkleized.root)] @@ st

\* a plausible slip: the layer-1 root is absorbed into the digest beta_1 was
\* read from, and the rehash of the draw follows it
prove_fri_deg_1_commit_before_rehash(st, digest_bytes) ==
    LET beta_fri_deg_1 == prover_random_element(st.channel, st.orc, digest_bytes[3])
        layer == fri_step(DOMAIN_LDE, st.cp, beta_fri_deg_1.draw.ret)
        fri_layer_deg_1_eval == eval_domain(layer.polynomial, layer.domain)
        fri_layer_deg_1_merkleized == MerkleTree_new(fri_layer_deg_1_eval)
    IN  [panic |-> st.panic,
         beta_fri_deg_1 |-> beta_fri_deg_1.draw.ret,
         domain_deg_1 |-> layer.domain,
         fri_layer_deg_1_poly |-> layer.polynomial,
         fri_layer_deg_1_eval |-> fri_layer_deg_1_eval,
         fri_layer_deg_1_merkleized |-> fri_layer_deg_1_merkleized,
         orc |-> beta_fri_deg_1.orc,
         channel |-> rehash_after_draw(commit(st.channel,
                                              fri_layer_deg_1_merkleized.root))] @@ st

\* "FRI": beta_fri_deg_1 is drawn, the layer of degree 1 is computed,
\* evaluated over its domain and merkleized, and the root committed
prove_fri_deg_1(st, digest_bytes) ==
    LET beta_fri_deg_1 == prover_random_element(st.channel, st.orc, digest_bytes[3])
        layer == fri_step(DOMAIN_LDE, st.cp, beta_fri_deg_1.draw.ret)
        fri_layer_deg_1_eval == eval_domain(layer.polynomial, layer.domain)
        fri_layer_deg_1_merkleized == MerkleTree_new(fri_layer_deg_1_eval)
    IN  [panic |->
             IF st.panic # "none" THEN st.panic
             ELSE IF poly_fri_step_panics(st.cp) THEN "fri_step on a constant"
             ELSE IF MerkleTree_new_panics(fri_layer_deg_1_eval)
             THEN "Merkle tree expects leaves to be power of 2"
             ELSE "none",
         beta_fri_deg_1 |-> beta_fri_deg_1.draw.ret,
         domain_deg_1 |-> layer.domain,
         fri_layer_deg_1_poly |-> layer.polynomial,
         fri_layer_deg_1_eval |-> fri_layer_deg_1_eval,
         fri_layer_deg_1_merkleized |-> fri_layer_deg_1_merkleized,
         orc |-> beta_fri_deg_1.orc,
         channel |-> commit(beta_fri_deg_1.draw.channel,
                            fri_layer_deg_1_merkleized.root)] @@ st

\* beta_fri_deg_0 is drawn and the last layer computed; the two assertions
\* on the last layer
prove_fri_deg_0(st, digest_bytes) ==
    LET beta_fri_deg_0 == prover_random_element(st.channel, st.orc, digest_bytes[4])
        layer == fri_step(st.domain_deg_1, st.fri_layer_deg_1_poly,
                          beta_fri_deg_0.draw.ret)
    IN  [panic |->
             IF st.panic # "none" THEN st.panic
             ELSE IF poly_fri_step_panics(st.fri_layer_deg_1_poly)
             THEN "fri_step on a constant"
             ELSE IF Len(layer.domain) # 2 THEN "assert domain_deg_0.len() == 2"
             ELSE IF eval(layer.polynomial, layer.domain[1])
                         # eval(layer.polynomial, layer.domain[2])
             THEN "assert last layer constant"
             ELSE "none",
         beta_fri_deg_0 |-> beta_fri_deg_0.draw.ret,
         domain_deg_0 |-> layer.domain,
         fri_layer_deg_0_poly |-> layer.polynomial,
         fri_layer_deg_0_eval |-> eval(layer.polynomial, layer.domain[1]),
         orc |-> beta_fri_deg_0.orc,
         channel |-> beta_fri_deg_0.draw.channel] @@ st

\* "Query phase": query_idx is drawn, the openings are generated, the
\* commitments are taken from the channel and the proof is assembled
prove_query(st, digest_bytes) ==
    LET query_idx == prover_random_integer(st.channel, st.orc, digest_bytes[5], 8 - 2)
        commitments == finalize(query_idx.draw.channel)
        panic ==
            IF st.panic # "none" THEN st.panic
            ELSE IF generate_query_phase_panics(
                        query_idx.draw.ret, trace_lde, st.trace_lde_merkleized,
                        st.cp_lde, st.cp_lde_merkleized,
                        st.fri_layer_deg_1_eval, st.fri_layer_deg_1_merkleized)
            THEN "generate_query_phase"
            ELSE IF Len(commitments) # 3 THEN "Expected 3 commitments"
            ELSE "none"
    IN  [panic |-> panic,
         query_idx |-> query_idx.draw.ret,
         proof |->
             IF panic # "none"
             THEN <<>>
             ELSE [trace_lde_commitment |-> commitments[1],
                   composition_poly_lde_commitment |-> commitments[2],
                   fri_layer_deg_1_commitment |-> commitments[3],
                   query_phase |->
                       generate_query_phase(
                           query_idx.draw.ret, trace_lde, st.trace_lde_merkleized,
                           st.cp_lde, st.cp_lde_merkleized,
                           st.fri_layer_deg_1_eval, st.fri_layer_deg_1_merkleized,
                           st.fri_layer_deg_0_eval)],
         orc |-> query_idx.orc,
         channel |-> query_idx.draw.channel] @@ st

\* The proof is the field proof of the result; orc is the oracle afterwards,
\* and the other fields are the values generate_proof computed on the way.
generate_proof(orc, digest_bytes) ==
    prove_query(
        prove_fri_deg_0(
            prove_fri_deg_1(
                prove_cp(prove_alphas(prove_trace(orc), digest_bytes)),
                digest_bytes),
            digest_bytes),
        digest_bytes)

(***************************************************************************)
(* src/verifier.rs                                                         *)
(***************************************************************************)

\* a plausible slip: the opening of cp(-x) is not checked against its root
verify_merkle_proofs_skipping_cp(stark_proof) ==
    LET q == stark_proof.query_phase
    IN  IF ~verify_inclusion(q.trace_x.value, q.trace_x.path,
                             stark_proof.trace_lde_commitment)
        THEN "trace_x merkle proof verification failed"
        ELSE IF ~verify_inclusion(q.trace_gx.value, q.trace_gx.path,
                                  stark_proof.trace_lde_commitment)
        THEN "trace_gx merkle proof verification failed"
        ELSE IF ~verify_inclusion(q.fri_layer_deg_1_minus_x.value,
                                  q.fri_layer_deg_1_minus_x.path,
                                  stark_proof.fri_layer_deg_1_commitment)
        THEN "fri_layer_deg_1_minus_x merkle proof verification failed"
        ELSE "ok"

\* verify_merkle_proofs: the openings the proof holds, each against its
\* root, in the order of the source; the first failure is the error
\* returned.  The source also has blocks for query_phase.cp_x and
\* query_phase.fri_layer_deg_1_x, fields that ProofQueryPhase (lib.rs) does
\* not declare and the prover does not produce: there is nothing for them to
\* read, and they are left out.
verify_merkle_proofs(stark_proof) ==
    LET q == stark_proof.query_phase
    IN  IF ~verify_inclusion(q.trace_x.value, q.trace_x.path,
                             stark_proof.trace_lde_commitment)
        THEN "trace_x merkle proof verification failed"
        ELSE IF ~verify_inclusion(q.trace_gx.value, q.trace_gx.path,
                                  stark_proof.trace_lde_commitment)
        THEN "trace_gx merkle proof verification failed"
        ELSE IF ~verify_inclusion(q.cp_minus_x.value, q.cp_minus_x.path,
                                  stark_proof.composition_poly_lde_commitment)
        THEN "cp_minus_x merkle proof verification failed"
        ELSE IF ~verify_inclusion(q.fri_layer_deg_1_minus_x.value,
                                  q.fri_layer_deg_1_minus_x.path,
                                  stark_proof.fri_layer_deg_1_commitment)
        THEN "fri_layer_deg_1_minus_x merkle proof verification failed"
        ELSE "ok"

\* verify_query.  divisors lists the right-hand sides of the divisions in
\* the order they are made; the call panics when the index is out of bounds
\* or a divisor is zero.
verify_query(queries, alpha_0, alpha_1, beta_fri_deg_1, beta_fri_deg_0, query_idx) ==
    LET domain_lde == CyclicGroup_new(8)
        in_bounds == query_idx < Len(domain_lde)
        x == IF in_bounds THEN domain_lde[query_idx + 1] ELSE 0
        p1_x == sub(queries.trace_x.value, from_i32(3))
        boundary_divisor == sub(x, from_i32(1))
        boundary_constraint_x == div(p1_x, boundary_divisor)
        p2_x == sub(queries.trace_gx.value, exp(queries.trace_x.value, 2))
        denom == mul(mul(sub(x, from_i32(1)), sub(x, from_i32(13))),
                     sub(x, from_i32(16)))
        transition_constraint_x == div(p2_x, denom)
        cp_x == add(mul(boundary_constraint_x, alpha_0),
                    mul(transition_constraint_x, alpha_1))
        cp_minus_x == queries.cp_minus_x.value
        g_x_squared_1 == div(add(cp_x, cp_minus_x), from_u8(2))
        h_x_squared_1 == div(sub(cp_x, cp_minus_x), mul(from_u8(2), x))
        fri_layer_deg_1_x == add(g_x_squared_1, mul(beta_fri_deg_1, h_x_squared_1))
        x_2 == exp(x, 2)
        fri_layer_deg_1_minus_x == queries.fri_layer_deg_1_minus_x.value
        g_x_squared_0 == div(add(fri_layer_deg_1_x, fri_layer_deg_1_minus_x), from_u8(2))
        h_x_squared_0 == div(sub(fri_layer_deg_1_x, fri_layer_deg_1_minus_x),
                             mul(from_u8(2), x_2))
        expected_fri_layer_deg_0_x == add(g_x_squared_0, mul(beta_fri_deg_0, h_x_squared_0))
        divisors == <<boundary_divisor, denom, from_u8(2), mul(from_u8(2), x),
                      from_u8(2), mul(from_u8(2), x_2)>>
        panics ==
            \/ ~in_bounds
            \/ div_panics(p1_x, boundary_divisor)
            \/ div_panics(p2_x, denom)
            \/ div_panics(add(cp_x, cp_minus_x), from_u8(2))
            \/ div_panics(sub(cp_x, cp_minus_x), mul(from_u8(2), x))
            \/ div_panics(add(fri_layer_deg_1_x, fri_layer_deg_1_minus_x), from_u8(2))
            \/ div_panics(sub(fri_layer_deg_1_x, fri_layer_deg_1_minus_x),
                          mul(from_u8(2), x_2))
    IN  [result |->
            IF CyclicGroup_new_err(8) THEN "Unsupported group size"
            ELSE IF panics THEN "panic"
            ELSE IF expected_fri_layer_deg_0_x = queries.fri_layer_deg_0_x THEN "ok"
            ELSE "Final FRI layer check failed",
         x |-> x,
         divisors |-> divisors,
         cp_x |-> cp_x,
         fri_layer_deg_1_x |-> fri_layer_deg_1_x,
         expected_fri_layer_deg_0_x |-> expected_fri_layer_deg_0_x]

\* a plausible slip: beta_0 is drawn before the layer-1 root is absorbed
verify_draw_before_commit(stark_proof, orc) ==
    LET channel_0 == Channel_new
        channel_1 == commit(channel_0, stark_proof.trace_lde_commitment)
        draw_alpha_0 == random_element(channel_1, orc)
        draw_alpha_1 == random_element(draw_alpha_0.channel, orc)
        channel_2 == commit(draw_alpha_1.channel,
                            stark_proof.composition_poly_lde_commitment)
        draw_beta_1 == random_element(channel_2, orc)
        draw_beta_0 == random_element(draw_beta_1.channel, orc)
        channel_3 == commit(draw_beta_0.channel, stark_proof.fri_layer_deg_1_commitment)
        draw_query_idx == random_integer(channel_3, orc, 8 - 2)
        merkle == verify_merkle_proofs(stark_proof)
        query == verify_query(stark_proof.query_phase,
                              draw_alpha_0.ret, draw_alpha_1.ret,
                              draw_beta_1.ret, draw_beta_0.ret, draw_query_idx.ret)
    IN  [result |-> IF merkle # "ok" THEN merkle ELSE query.result,
         merkle |-> merkle,
         query |-> query,
         alpha_0 |-> draw_alpha_0.ret,
         alpha_1 |-> draw_alpha_1.ret,
         beta_fri_deg_1 |-> draw_beta_1.ret,
         beta_fri_deg_0 |-> draw_beta_0.ret,
         query_idx |-> draw_query_idx.ret,
         channel |-> draw_query_idx.channel]

\* a plausible slip: the algebraic check is made before the Merkle checks
verify_query_before_merkle(stark_proof, orc) ==
    LET channel_0 == Channel_new
        channel_1 == commit(channel_0, stark_proof.trace_lde_commitment)
        draw_alpha_0 == random_element(channel_1, orc)
        draw_alpha_1 == random_element(draw_alpha_0.channel, orc)
        channel_2 == commit(draw_alpha_1.channel,
                            stark_proof.composition_poly_lde_commitment)
        draw_beta_1 == random_element(channel_2, orc)
        channel_3 == commit(draw_beta_1.channel, stark_proof.fri_layer_deg_1_commitment)
        draw_beta_0 == random_element(channel_3, orc)
        draw_query_idx == random_integer(draw_beta_0.channel, orc, 8 - 2)
        merkle == verify_merkle_proofs(stark_proof)
        query == verify_query(stark_proof.query_phase,
                              draw_alpha_0.ret, draw_alpha_1.ret,
                              draw_beta_1.ret, draw_beta_0.ret, draw_query_idx.ret)
    IN  [result |-> IF query.result # "ok" THEN query.result ELSE merkle,
         merkle |-> merkle,
         query |-> query,
         alpha_0 |-> draw_alpha_0.ret,
         alpha_1 |-> draw_alpha_1.ret,
         beta_fri_deg_1 |-> draw_beta_1.ret,
         beta_fri_deg_0 |-> draw_beta_0.ret,
         query_idx |-> draw_query_idx.ret,
         channel |-> draw_query_idx.channel]

\* verify.  result is "ok" for Ok(()), "panic" for a panic, and otherwise the
\* message of the error returned; merkle is what verify_merkle_proofs
\* returned and query what verify_query computes from the openings (it is
\* called only when merkle is "ok").
verify(stark_proof, orc) ==
    LET channel_0 == Channel_new
        channel_1 == commit(channel_0, stark_proof.trace_lde_commitment)
        draw_alpha_0 == random_element(channel_1, orc)
        draw_alpha_1 == random_element(draw_alpha_0.channel, orc)
        channel_2 == commit(draw_alpha_1.channel,
                            stark_proof.composition_poly_lde_commitment)
        draw_beta_1 == random_element(channel_2, orc)
        channel_3 == commit(draw_beta_1.channel, stark_proof.fri_layer_deg_1_commitment)
        draw_beta_0 == random_element(channel_3, orc)
        draw_query_idx == random_integer(draw_beta_0.channel, orc, 8 - 2)
        merkle == verify_merkle_proofs(stark_proof)
        query == verify_query(stark_proof.query_phase,
                              draw_alpha_0.ret, draw_alpha_1.ret,
                              draw_beta_1.ret, draw_beta_0.ret, draw_query_idx.ret)
    IN  [result |-> IF merkle # "ok" THEN merkle ELSE query.result,
         merkle |-> merkle,
         query |-> query,
         alpha_0 |-> draw_alpha_0.ret,
         alpha_1 |-> draw_alpha_1.ret,
         beta_fri_deg_1 |-> draw_beta_1.ret,
         beta_fri_deg_0 |-> draw_beta_0.ret,
         query_idx |-> draw_query_idx.ret,
         channel |-> draw_query_idx.channel]

\* ---- state machines ----

(***************************************************************************)
(* The field operations as steps: the operands fa, fb are drawn from GF at  *)
(* the start, one operation is applied to them and its outcome recorded.   *)
(* fres is -1 when the operation panicked.                                 *)
(***************************************************************************)

InitField ==
    /\ fop = "none"
    /\ fa \in GF
    /\ fb \in GF
    /\ fres = 0
    /\ fpanic = FALSE
    /\ fovf = FALSE
    /\ oracle = <<>>
    /\ IdleProtocol
    /\ IdleMerkle
    /\ IdleChannel
    /\ IdlePoly

FieldAdd ==
    /\ fop = "none"
    /\ fop' = "add"
    /\ UNCHANGED <<oracle, protocolVars, merkleVars, channelVars, polyVars>>
    /\ UNCHANGED <<fa, fb>>
    /\ fres' = add(fa, fb)
    /\ fovf' = add_overflows(fa, fb)
    /\ fpanic' = FALSE

FieldSub ==
    /\ fop = "none"
    /\ fop' = "sub"
    /\ UNCHANGED <<oracle, protocolVars, merkleVars, channelVars, polyVars>>
    /\ UNCHANGED <<fa, fb>>
    /\ fres' = sub(fa, fb)
    /\ fovf' = sub_overflows(fa, fb)
    /\ fpanic' = FALSE

FieldMul ==
    /\ fop = "none"
    /\ fop' = "mul"
    /\ UNCHANGED <<oracle, protocolVars, merkleVars, channelVars, polyVars>>
    /\ UNCHANGED <<fa, fb>>
    /\ fres' = mul(fa, fb)
    /\ fovf' = mul_overflows(fa, fb)
    /\ fpanic' = FALSE

FieldDiv ==
    /\ fop = "none"
    /\ fop' = "div"
    /\ UNCHANGED <<oracle, protocolVars, merkleVars, channelVars, polyVars>>
    /\ UNCHANGED <<fa, fb>>
    /\ fpanic' = div_panics(fa, fb)
    /\ fres' = IF div_panics(fa, fb) THEN -1 ELSE div(fa, fb)
    /\ fovf' = FALSE

FieldMultInv ==
    /\ fop = "none"
    /\ fop' = "mult_inv"
    /\ UNCHANGED <<oracle, protocolVars, merkleVars, channelVars, polyVars>>
    /\ UNCHANGED <<fa, fb>>
    /\ fpanic' = mult_inv_panics(fa)
    /\ fres' = IF mult_inv_panics(fa) THEN -1 ELSE mult_inv(fa)
    /\ fovf' = FALSE

\* log(x, base) with base = 3, the generator mult_inv uses
FieldLog ==
    /\ fop = "none"
    /\ fop' = "log"
    /\ UNCHANGED <<oracle, protocolVars, merkleVars, channelVars, polyVars>>
    /\ UNCHANGED <<fa, fb>>
    /\ fpanic' = log_panics(fa, from_i32(3))
    /\ fres' = IF log_panics(fa, from_i32(3)) THEN -1 ELSE log(fa, from_i32(3))
    /\ fovf' = FALSE

FieldMinus ==
    /\ fop = "none"
    /\ fop' = "minus"
    /\ UNCHANGED <<oracle, protocolVars, merkleVars, channelVars, polyVars>>
    /\ UNCHANGED <<fa, fb>>
    /\ fres' = minus(fa)
    /\ fovf' = minus_overflows(fa)
    /\ fpanic' = FALSE

\* fa.exp(fb), the exponent a u8 up to PRIME - 1
FieldExp ==
    /\ fop = "none"
    /\ fop' = "exp"
    /\ UNCHANGED <<oracle, protocolVars, merkleVars, channelVars, polyVars>>
    /\ UNCHANGED <<fa, fb>>
    /\ fres' = exp(fa, fb)
    /\ fovf' = exp_overflows(fa, fb)
    /\ fpanic' = FALSE

\* fa.square().  Where the product leaves u8 the build decides: with
\* overflow checks the multiplication panics, without them it wraps.
FieldSquare ==
    /\ fop = "none"
    /\ fop' = "square"
    /\ UNCHANGED <<oracle, protocolVars, merkleVars, channelVars, polyVars>>
    /\ UNCHANGED <<fa, fb>>
    /\ fovf' = square_overflows(fa)
    /\ fpanic' \in {FALSE, square_overflows(fa)}
    /\ fres' = IF fpanic' THEN -1 ELSE square(fa)

\* the i32 values converted: those of magnitude up to MaxI32Magnitude and
\* the two at each end of the i32 range
MaxI32Magnitude == 100

I32Samples ==
    (-MaxI32Magnitude .. MaxI32Magnitude)
        \cup {-2147483647 - 1, -2147483647, 2147483647 - 1, 2147483647}

\* BaseField::from(num) for an i32 num, which fa holds afterwards
FieldFromI32 ==
    /\ fop = "none"
    /\ fop' = "from_i32"
    /\ UNCHANGED <<oracle, protocolVars, merkleVars, channelVars, polyVars>>
    /\ \E num \in I32Samples :
          /\ fa' = num
          /\ fres' = from_i32(num)
          /\ fovf' = from_i32_overflows(num)
    /\ fb' = 0
    /\ fpanic' = FALSE

NextField ==
    \/ FieldAdd
    \/ FieldSub
    \/ FieldMul
    \/ FieldDiv
    \/ FieldMultInv
    \/ FieldLog
    \/ FieldMinus
    \/ FieldExp
    \/ FieldSquare
    \/ FieldFromI32

SpecField == InitField /\ [][NextField]_vars

(***************************************************************************)
(* The protocol as steps.  generate_proof runs once; the bytes of the      *)
(* digests its channel reads are drawn from ElemSamples (the four field    *)
(* challenges) and IntSamples (the query index).  The proof is then handed *)
(* to verify as it is, or after someone changed one field of it            *)
(* (Tamper...), or after someone rebuilt part of it (Reopen..., Forge...). *)
(***************************************************************************)

\* i32 values of the first four bytes of a digest a field challenge is read
\* from: -1 (all bytes 0xFF) and 0 .. MaxElemSample
MaxElemSample == 1

ElemSamples == {-1} \cup (0 .. MaxElemSample)

\* i32 values of the bytes the query index is read from
MaxByteSample == 5

IntSamples == 0 .. MaxByteSample

\* how far a tampered value is moved, and how many alternative digests a
\* tampered hash is replaced by
MaxDelta == 1

Deltas == 1 .. MaxDelta

AltDigests == {leaf_hash(d) : d \in 0 .. MaxDelta}

Openings == {"trace_x", "trace_gx", "cp_minus_x", "fri_layer_deg_1_minus_x"}

Roots == {"trace_lde_commitment", "composition_poly_lde_commitment",
          "fri_layer_deg_1_commitment"}

InitProtocol ==
    /\ pc = "start"
    /\ proof = <<>>
    /\ oracle = <<>>
    /\ prover = <<>>
    /\ tamper = "none"
    /\ vres = <<>>
    /\ IdleField
    /\ IdleMerkle
    /\ IdleChannel
    /\ IdlePoly

\* what the state keeps of the prover's run
ProverKept ==
    {"panic", "alpha_0", "alpha_1", "beta_fri_deg_1", "beta_fri_deg_0",
     "query_idx", "cp", "fri_layer_deg_1_poly", "domain_deg_1",
     "fri_layer_deg_0_poly", "domain_deg_0", "channel"}

GenerateProof ==
    /\ pc = "start"
    /\ \E e1 \in ElemSamples, e2 \in ElemSamples, e3 \in ElemSamples,
          e4 \in ElemSamples, i \in IntSamples :
          \E g \in {generate_proof(oracle, <<e1, e2, e3, e4, i>>)} :
              /\ pc' = IF g.panic = "none" THEN "proved" ELSE "prover_panicked"
              /\ proof' = g.proof
              /\ oracle' = g.orc
              /\ prover' = [k \in ProverKept |-> g[k]]
    /\ UNCHANGED <<tamper, vres, fieldVars, merkleVars, channelVars, polyVars>>

\* one of the three roots is replaced by a different digest
TamperRoot ==
    /\ pc = "proved"
    /\ \E r \in Roots, a \in AltDigests :
          /\ a # proof[r]
          /\ proof' = [proof EXCEPT ![r] = a]
    /\ pc' = "handed"
    /\ tamper' = "root"
    /\ UNCHANGED <<oracle, prover, vres, fieldVars, merkleVars, channelVars, polyVars>>

\* one opened value is replaced by a different field element
TamperValue ==
    /\ pc = "proved"
    /\ \E f \in Openings, d \in Deltas :
          proof' = [proof EXCEPT !.query_phase[f].value = add(@, d)]
    /\ pc' = "handed"
    /\ tamper' = "value"
    /\ UNCHANGED <<oracle, prover, vres, fieldVars, merkleVars, channelVars, polyVars>>

\* one sibling hash of one path is replaced by a different digest
TamperSibling ==
    /\ pc = "proved"
    /\ \E f \in Openings, a \in AltDigests :
          \E n \in 1 .. Len(proof.query_phase[f].path) :
              /\ a # proof.query_phase[f].path[n].hash
              /\ proof' = [proof EXCEPT !.query_phase[f].path[n].hash = a]
    /\ pc' = "handed"
    /\ tamper' = "sibling"
    /\ UNCHANGED <<oracle, prover, vres, fieldVars, merkleVars, channelVars, polyVars>>

\* the scalar of the last layer is replaced by a different field element
TamperScalar ==
    /\ pc = "proved"
    /\ \E d \in Deltas :
          proof' = [proof EXCEPT !.query_phase.fri_layer_deg_0_x = add(@, d)]
    /\ pc' = "handed"
    /\ tamper' = "scalar"
    /\ UNCHANGED <<oracle, prover, vres, fieldVars, merkleVars, channelVars, polyVars>>

\* The trace opening is replaced by the opening of another leaf of the same
\* tree, and the scalar by the value the verifier will compute from the
\* openings of the proof.
ReopenTrace ==
    /\ pc = "proved"
    /\ \E d \in Deltas :
          \E reopened \in
                {[proof EXCEPT
                     !.query_phase.trace_x =
                         [value |-> trace_lde[((prover.query_idx + d) % 8) + 1],
                          path |-> MerklePath_new(MerkleTree_new(trace_lde),
                                                  (prover.query_idx + d) % 8)]]} :
              proof' = [reopened EXCEPT
                           !.query_phase.fri_layer_deg_0_x =
                               verify(reopened, oracle).query.expected_fri_layer_deg_0_x]
    /\ pc' = "handed"
    /\ tamper' = "reopen"
    /\ UNCHANGED <<oracle, prover, vres, fieldVars, merkleVars, channelVars, polyVars>>

\* The trace tree is replaced by the tree of other values (every value of
\* the low-degree extension moved by d), both trace openings are taken from
\* it at the indices the verifier will derive, and the scalar is the value
\* the verifier will compute.
ForgeTrace ==
    /\ pc = "proved"
    /\ \E d \in Deltas :
          \E forged_lde \in {[k \in 1 .. Len(trace_lde) |-> add(trace_lde[k], d)]} :
          \E tree \in {MerkleTree_new(forged_lde)} :
          \E rooted \in {[proof EXCEPT !.trace_lde_commitment = tree.root]} :
          \E idx \in {verify(rooted, oracle).query_idx} :
          \E opened \in
                {[rooted EXCEPT
                     !.query_phase.trace_x =
                         [value |-> forged_lde[idx + 1],
                          path |-> MerklePath_new(tree, idx)],
                     !.query_phase.trace_gx =
                         [value |-> forged_lde[idx + 2 + 1],
                          path |-> MerklePath_new(tree, idx + 2)]]} :
              proof' = [opened EXCEPT
                           !.query_phase.fri_layer_deg_0_x =
                               verify(opened, oracle).query.expected_fri_layer_deg_0_x]
    /\ pc' = "handed"
    /\ tamper' = "forge"
    /\ UNCHANGED <<oracle, prover, vres, fieldVars, merkleVars, channelVars, polyVars>>

Verify ==
    /\ pc \in {"proved", "handed"}
    /\ \E v \in {verify(proof, oracle)} : vres' = v
    /\ pc' = "verified"
    /\ UNCHANGED <<proof, oracle, prover, tamper, fieldVars, merkleVars, channelVars, polyVars>>

Next ==
    \/ GenerateProof
    \/ TamperRoot
    \/ TamperValue
    \/ TamperSibling
    \/ TamperScalar
    \/ ReopenTrace
    \/ ForgeTrace
    \/ Verify

Spec == InitProtocol /\ [][Next]_vars


(***************************************************************************)
(* The Merkle tree as steps.  A tree is built over a sequence of leaf      *)
(* values and a path is made for an index (MerkleOpen); someone may then   *)
(* change the value or one sibling hash of the path; the value is checked  *)
(* against the root with the path (MerkleVerify).                          *)
(***************************************************************************)

\* the most leaves of a tree, and the largest leaf value
MaxLeaves == 4

MaxLeafValue == 2

LeafValues == 0 .. MaxLeafValue

LeafSequences == UNION {[1 .. n -> LeafValues] : n \in 0 .. MaxLeaves}

\* the digests a sibling hash is replaced by: hashes of leaves and of pairs
SiblingReplacements ==
    {leaf_hash(v) : v \in 0 .. (MaxLeafValue + 1)}
        \cup {hash_pair(leaf_hash(v), leaf_hash(w)) : v, w \in 0 .. 1}

InitMerkle ==
    /\ mpc = "start"
    /\ tree_values = <<>>
    /\ leaf_index = 0
    /\ leaf_value = 0
    /\ merkle_path = <<>>
    /\ merkle_root = <<>>
    /\ mtamper = "none"
    /\ included = FALSE
    /\ oracle = <<>>
    /\ IdleField
    /\ IdleProtocol
    /\ IdleChannel
    /\ IdlePoly

\* MerkleTree::new(values), then MerklePath::new(&tree, index); index runs
\* past the number of leaves, where MerklePath::new returns Err
MerkleOpen ==
    /\ mpc = "start"
    /\ \E values \in LeafSequences :
          /\ tree_values' = values
          /\ IF MerkleTree_new_panics(values)
             THEN /\ mpc' = "tree_panicked"
                  /\ UNCHANGED <<leaf_index, leaf_value, merkle_path, merkle_root>>
             ELSE \E index \in 0 .. (Len(values) + 1) :
                  \E tree \in {MerkleTree_new(values)} :
                      /\ leaf_index' = index
                      /\ merkle_root' = tree.root
                      /\ IF MerklePath_new_err(tree, index)
                         THEN /\ mpc' = "no_path"
                              /\ UNCHANGED <<leaf_value, merkle_path>>
                         ELSE /\ mpc' = "opened"
                              /\ leaf_value' = values[index + 1]
                              /\ merkle_path' = MerklePath_new(tree, index)
    /\ UNCHANGED <<mtamper, included, oracle, fieldVars, protocolVars, channelVars, polyVars>>

\* the value is replaced by a different field element
MerkleTamperValue ==
    /\ mpc = "opened"
    /\ \E v \in 0 .. (MaxLeafValue + 1) :
          /\ v # leaf_value
          /\ leaf_value' = v
    /\ mpc' = "handed"
    /\ mtamper' = "value"
    /\ UNCHANGED <<tree_values, leaf_index, merkle_path, merkle_root, included>>
    /\ UNCHANGED <<oracle, fieldVars, protocolVars, channelVars, polyVars>>

\* one sibling hash of the path is replaced by a different hash
MerkleTamperSibling ==
    /\ mpc = "opened"
    /\ \E n \in 1 .. Len(merkle_path), a \in SiblingReplacements :
          /\ a # merkle_path[n].hash
          /\ merkle_path' = [merkle_path EXCEPT ![n].hash = a]
    /\ mpc' = "handed"
    /\ mtamper' = "sibling"
    /\ UNCHANGED <<tree_values, leaf_index, leaf_value, merkle_root, included>>
    /\ UNCHANGED <<oracle, fieldVars, protocolVars, channelVars, polyVars>>

MerkleVerify ==
    /\ mpc \in {"opened", "handed"}
    /\ included' = verify_inclusion(leaf_value, merkle_path, merkle_root)
    /\ mpc' = "verified"
    /\ UNCHANGED <<tree_values, leaf_index, leaf_value, merkle_path, merkle_root, mtamper>>
    /\ UNCHANGED <<oracle, fieldVars, protocolVars, channelVars, polyVars>>

NextMerkle ==
    \/ MerkleOpen
    \/ MerkleTamperValue
    \/ MerkleTamperSibling
    \/ MerkleVerify

SpecMerkle == InitMerkle /\ [][NextMerkle]_vars

(***************************************************************************)
(* Two channels as steps.  Channel a is created by Channel::new and         *)
(* receives commit, random_element and random_integer calls, which ops      *)
(* records; channel b is created by Channel::new and receives the calls of  *)
(* ops in their order, at its own pace.  draws_a and draws_b are the        *)
(* values the draw calls returned.  The bytes of a digest are fixed in the  *)
(* oracle when the digest is first read.                                    *)
(***************************************************************************)

\* the most calls a channel receives
MaxOps == 3

InitChannel ==
    /\ channel_a = Channel_new
    /\ channel_b = Channel_new
    /\ ops = <<>>
    /\ replayed = 0
    /\ draws_a = <<>>
    /\ draws_b = <<>>
    /\ oracle = <<>>
    /\ IdleField
    /\ IdleProtocol
    /\ IdleMerkle
    /\ IdlePoly

ChannelCommit ==
    /\ Len(ops) < MaxOps
    /\ \E commitment \in AltDigests :
          /\ channel_a' = commit(channel_a, commitment)
          /\ ops' = Append(ops, [op |-> "commit", commitment |-> commitment])
    /\ UNCHANGED <<channel_b, replayed, draws_a, draws_b>>
    /\ UNCHANGED <<oracle, fieldVars, protocolVars, merkleVars, polyVars>>

ChannelRandomElement ==
    /\ Len(ops) < MaxOps
    /\ \E bytes \in ElemSamples :
       \E d \in {prover_random_element(channel_a, oracle, bytes)} :
          /\ channel_a' = d.draw.channel
          /\ draws_a' = Append(draws_a, d.draw.ret)
          /\ oracle' = d.orc
    /\ ops' = Append(ops, [op |-> "random_element"])
    /\ UNCHANGED <<channel_b, replayed, draws_b>>
    /\ UNCHANGED <<fieldVars, protocolVars, merkleVars, polyVars>>

ChannelRandomInteger ==
    /\ Len(ops) < MaxOps
    /\ \E bytes \in IntSamples :
       \E d \in {prover_random_integer(channel_a, oracle, bytes, 8 - 2)} :
          /\ channel_a' = d.draw.channel
          /\ draws_a' = Append(draws_a, d.draw.ret)
          /\ oracle' = d.orc
    /\ ops' = Append(ops, [op |-> "random_integer", upper_bound |-> 8 - 2])
    /\ UNCHANGED <<channel_b, replayed, draws_b>>
    /\ UNCHANGED <<fieldVars, protocolVars, merkleVars, polyVars>>

\* channel b receives the next call of ops
ChannelReplay ==
    /\ replayed < Len(ops)
    /\ replayed' = replayed + 1
    /\ \E call \in {ops[replayed + 1]} :
          \/ /\ call.op = "commit"
             /\ channel_b' = commit(channel_b, call.commitment)
             /\ UNCHANGED draws_b
          \/ /\ call.op = "random_element"
             /\ \E d \in {random_element(channel_b, oracle)} :
                   /\ channel_b' = d.channel
                   /\ draws_b' = Append(draws_b, d.ret)
          \/ /\ call.op = "random_integer"
             /\ \E d \in {random_integer(channel_b, oracle, call.upper_bound)} :
                   /\ channel_b' = d.channel
                   /\ draws_b' = Append(draws_b, d.ret)
    /\ UNCHANGED <<channel_a, ops, draws_a>>
    /\ UNCHANGED <<oracle, fieldVars, protocolVars, merkleVars, polyVars>>

NextChannel ==
    \/ ChannelCommit
    \/ ChannelRandomElement
    \/ ChannelRandomInteger
    \/ ChannelReplay

SpecChannel == InitChannel /\ [][NextChannel]_vars

(***************************************************************************)
(* The polynomial operations as steps: one operation of poly.rs is applied *)
(* to arguments drawn from Polynomials and GF; poly_in records the         *)
(* arguments and poly_out what the operation and the evaluations of its    *)
(* operands and result returned.                                           *)
(***************************************************************************)

\* the most coefficients of an argument, and the coefficient values used
MaxPolyLen == 3

CoeffSamples == {0, 1, PRIME - 1}

\* the coefficient lists of the crate's tests and constants
NamedPolynomials ==
    {<<1, 2, 3, 4>>, <<2, 3>>, <<6, 16, 2, 13>>, <<14, 15, 13>>, <<16, 9, 12, 1>>}

Polynomials ==
    UNION {[1 .. n -> CoeffSamples] : n \in 1 .. MaxPolyLen} \cup NamedPolynomials

InitPoly ==
    /\ poly_op = "none"
    /\ poly_in = <<>>
    /\ poly_out = <<>>
    /\ oracle = <<>>
    /\ IdleField
    /\ IdleProtocol
    /\ IdleMerkle
    /\ IdleChannel

\* p + q, and the evaluations of p, q and the sum at x
PolyAdd ==
    /\ poly_op = "none"
    /\ poly_op' = "add"
    /\ \E p \in Polynomials, q \in Polynomials, x \in GF :
          /\ poly_in' = [p |-> p, q |-> q, x |-> x]
          /\ \E r \in {poly_add(p, q)} :
                poly_out' = [poly |-> r,
                             p_x |-> eval(p, x),
                             q_x |-> eval(q, x),
                             at_x |-> eval(r, x)]
    /\ UNCHANGED <<oracle, fieldVars, protocolVars, merkleVars, channelVars>>

\* p * q, and the evaluations of p, q and the product at x
PolyMul ==
    /\ poly_op = "none"
    /\ poly_op' = "mul"
    /\ \E p \in Polynomials, q \in Polynomials, x \in GF :
          /\ poly_in' = [p |-> p, q |-> q, x |-> x]
          /\ \E r \in {poly_mul(p, q)} :
                poly_out' = [poly |-> r,
                             p_x |-> eval(p, x),
                             q_x |-> eval(q, x),
                             at_x |-> eval(r, x)]
    /\ UNCHANGED <<oracle, fieldVars, protocolVars, merkleVars, channelVars>>

\* the most samples interpolated, the points a domain is made of and the
\* values of the samples
MaxSamples == 3

PointSamples == {0, 1, 4, 13, 16}

ValueSamples == {0, 1, 3, 16}

\* the lists of n distinct points
DistinctPoints(n) ==
    {d \in [1 .. n -> PointSamples] : \A j, k \in 1 .. n : j # k => d[j] # d[k]}

\* lagrange_interp(domain, evaluations) on n distinct points and n or n + 1
\* values, or on DOMAIN_TRACE and the trace; then degree() and the
\* evaluations of the polynomial on the domain
PolyLagrange ==
    /\ poly_op = "none"
    /\ poly_op' = "lagrange_interp"
    /\ \E n \in 0 .. MaxSamples :
       \E domain \in DistinctPoints(n) \cup {DOMAIN_TRACE} :
       \E evaluations \in
              IF domain = DOMAIN_TRACE
              THEN {generate_trace}
              ELSE [1 .. n -> ValueSamples] \cup [1 .. (n + 1) -> ValueSamples] :
          /\ poly_in' = [domain |-> domain, evaluations |-> evaluations]
          /\ \E r \in {lagrange_interp(domain, evaluations)} :
                poly_out' =
                    IF lagrange_interp_err(domain, evaluations)
                    THEN [err |-> TRUE]
                    ELSE [err |-> FALSE,
                          poly |-> r,
                          degree |-> degree(r),
                          evals |-> eval_domain(r, domain)]
    /\ UNCHANGED <<oracle, fieldVars, protocolVars, merkleVars, channelVars>>

\* p.fri_step(beta), then the evaluations the fold identity relates: the
\* fold at x^2, p at x and at -x, and the two quotients (p(x) + p(-x)) / 2
\* and (p(x) - p(-x)) / (2 * x) as verify_query takes them
PolyFriStep ==
    /\ poly_op = "none"
    /\ poly_op' = "fri_step"
    /\ \E p \in Polynomials, beta \in GF, x \in GF :
          /\ poly_in' = [p |-> p, beta |-> beta, x |-> x, degree |-> degree(p)]
          /\ \E r \in {poly_fri_step(p, beta)} :
             \E p_x \in {eval(p, x)} :
             \E p_minus_x \in {eval(p, minus(x))} :
                poly_out' =
                    IF poly_fri_step_panics(p)
                    THEN [panic |-> TRUE]
                    ELSE [panic |-> FALSE,
                          poly |-> r,
                          degree |-> degree(r),
                          at_x_squared |-> eval(r, exp(x, 2)),
                          p_x |-> p_x,
                          p_minus_x |-> p_minus_x,
                          quotient_panics |->
                              \/ div_panics(add(p_x, p_minus_x), from_u8(2))
                              \/ div_panics(sub(p_x, p_minus_x), mul(from_u8(2), x)),
                          g_x_squared |-> div(add(p_x, p_minus_x), from_u8(2)),
                          h_x_squared |-> div(sub(p_x, p_minus_x), mul(from_u8(2), x))]
    /\ UNCHANGED <<oracle, fieldVars, protocolVars, merkleVars, channelVars>>

NextPoly ==
    \/ PolyAdd
    \/ PolyMul
    \/ PolyLagrange
    \/ PolyFriStep

SpecPoly == InitPoly /\ [][NextPoly]_vars

(***************************************************************************)
(* The domains, the constraint polynomials and the prover's folds as       *)
(* steps, on the variables of the polynomial operations.                   *)
(***************************************************************************)

\* the largest size CyclicGroup::new is called with
MaxGroupSize == 16

InitDomain == InitPoly

\* CyclicGroup::new(size)
GroupNew ==
    /\ poly_op = "none"
    /\ poly_op' = "group_new"
    /\ \E size \in 0 .. MaxGroupSize :
          /\ poly_in' = [size |-> size]
          /\ poly_out' = [err |-> CyclicGroup_new_err(size),
                          elements |-> CyclicGroup_new(size)]
    /\ UNCHANGED <<oracle, fieldVars, protocolVars, merkleVars, channelVars>>

\* the constraint polynomials and the trace polynomial evaluated at x, and
\* the trace polynomial at g * x, g = 13 the generator of the trace domain
QuotientEval ==
    /\ poly_op = "none"
    /\ poly_op' = "quotient_eval"
    /\ \E x \in GF :
          /\ poly_in' = [x |-> x]
          /\ poly_out' = [boundary_x |-> eval(boundary_constraint, x),
                          transition_x |-> eval(transition_constraint, x),
                          t_x |-> eval(trace_polynomial, x),
                          t_gx |-> eval(trace_polynomial, mul(from_u8(13), x))]
    /\ UNCHANGED <<oracle, fieldVars, protocolVars, merkleVars, channelVars>>

\* verify_query on the values the prover opens at an index of the LDE
\* domain for the challenges alpha_0, alpha_1 (the later layers left at 0),
\* next to the prover's composition polynomial evaluated at that point
Reconstruct ==
    /\ poly_op = "none"
    /\ poly_op' = "reconstruct"
    /\ \E idx \in 0 .. (Len(DOMAIN_LDE) - 1), alpha_0 \in GF, alpha_1 \in GF :
       \E x \in {DOMAIN_LDE[idx + 1]} :
       \E cp \in {composition_polynomial(alpha_0, alpha_1)} :
       \E queries \in
              {[trace_x |-> [value |-> eval(trace_polynomial, x), path |-> <<>>],
                trace_gx |-> [value |-> eval(trace_polynomial, mul(from_u8(13), x)),
                              path |-> <<>>],
                cp_minus_x |-> [value |-> eval(cp, minus(x)), path |-> <<>>],
                fri_layer_deg_1_minus_x |-> [value |-> 0, path |-> <<>>],
                fri_layer_deg_0_x |-> 0]} :
          /\ poly_in' = [idx |-> idx, alpha_0 |-> alpha_0, alpha_1 |-> alpha_1,
                         queries |-> queries]
          /\ poly_out' = [cp |-> cp,
                          cp_at_x |-> eval(cp, x),
                          verifier |-> verify_query(queries, alpha_0, alpha_1, 0, 0, idx)]
    /\ UNCHANGED <<oracle, fieldVars, protocolVars, merkleVars, channelVars>>

\* the composition polynomial and the two folds of generate_proof for the
\* challenges alpha_0, alpha_1, beta_fri_deg_1, beta_fri_deg_0, with what its
\* two assertions on the last layer compare
ProverFolds ==
    /\ poly_op = "none"
    /\ poly_op' = "folds"
    /\ \E alpha_0 \in GF, alpha_1 \in GF, beta_fri_deg_1 \in GF, beta_fri_deg_0 \in GF :
       \E cp \in {composition_polynomial(alpha_0, alpha_1)} :
       \E layer_1 \in {fri_step(DOMAIN_LDE, cp, beta_fri_deg_1)} :
       \E layer_0 \in {fri_step(layer_1.domain, layer_1.polynomial, beta_fri_deg_0)} :
          /\ poly_in' = [alpha_0 |-> alpha_0, alpha_1 |-> alpha_1,
                         beta_fri_deg_1 |-> beta_fri_deg_1,
                         beta_fri_deg_0 |-> beta_fri_deg_0]
          /\ poly_out' =
                 [cp |-> cp,
                  fri_layer_deg_1_poly |-> layer_1.polynomial,
                  domain_deg_1 |-> layer_1.domain,
                  fri_layer_deg_0_poly |-> layer_0.polynomial,
                  domain_deg_0 |-> layer_0.domain,
                  last_layer_evals |-> eval_domain(layer_0.polynomial, layer_0.domain),
                  panic |->
                      IF poly_fri_step_panics(cp)
                             \/ poly_fri_step_panics(layer_1.polynomial)
                      THEN "fri_step on a constant"
                      ELSE IF Len(layer_0.domain) # 2
                      THEN "assert domain_deg_0.len() == 2"
                      ELSE IF eval(layer_0.polynomial, layer_0.domain[1])
                                  # eval(layer_0.polynomial, layer_0.domain[2])
                      THEN "assert last layer constant"
                      ELSE "none"]
    /\ UNCHANGED <<oracle, fieldVars, protocolVars, merkleVars, channelVars>>

\* the query phase of generate_proof for a query index random_integer(8 - 2)
\* can return: the openings generate_query_phase makes, with the elements
\* of the domains at the positions it opens.  The challenge of the last
\* fold and the last layer's value enter neither the positions nor the
\* openings and are 0 here.
QueryPositions ==
    /\ poly_op = "none"
    /\ poly_op' = "query"
    /\ \E query_idx \in 0 .. (8 - 2 - 1), alpha_0 \in CoeffSamples, alpha_1 \in CoeffSamples,
          beta_fri_deg_1 \in GF :
       \E cp \in {composition_polynomial(alpha_0, alpha_1)} :
       \E layer_1 \in {fri_step(DOMAIN_LDE, cp, beta_fri_deg_1)} :
       \E layer_0 \in {fri_step(layer_1.domain, layer_1.polynomial, 0)} :
       \E cp_lde \in {eval_domain(cp, DOMAIN_LDE)} :
       \E fri_layer_deg_1_eval \in {eval_domain(layer_1.polynomial, layer_1.domain)} :
          /\ poly_in' = [query_idx |-> query_idx, alpha_0 |-> alpha_0, alpha_1 |-> alpha_1,
                         beta_fri_deg_1 |-> beta_fri_deg_1]
          /\ poly_out' =
                 [cp |-> cp,
                  fri_layer_deg_1_poly |-> layer_1.polynomial,
                  domain_deg_1 |-> layer_1.domain,
                  domain_deg_0 |-> layer_0.domain,
                  x |-> DOMAIN_LDE[query_idx + 1],
                  gx |-> DOMAIN_LDE[query_idx + 2 + 1],
                  minus_x |-> DOMAIN_LDE[query_idx_minus_x(query_idx) + 1],
                  fri_1_x |-> layer_1.domain[(query_idx % 4) + 1],
                  fri_1_minus_x |->
                      layer_1.domain[query_idx_fri_1_minus_x(query_idx) + 1],
                  queries |->
                      generate_query_phase(
                          query_idx, trace_lde, MerkleTree_new(trace_lde),
                          cp_lde, MerkleTree_new(cp_lde),
                          fri_layer_deg_1_eval, MerkleTree_new(fri_layer_deg_1_eval),
                          0)]
    /\ UNCHANGED <<oracle, fieldVars, protocolVars, merkleVars, channelVars>>

NextDomain ==
    \/ GroupNew
    \/ QuotientEval
    \/ Reconstruct
    \/ ProverFolds
    \/ QueryPositions

SpecDomain == InitDomain /\ [][NextDomain]_vars

(***************************************************************************)
(* generate_proof as steps, one per section of its code, on the variables  *)
(* of the protocol: prover holds what the sections run so far computed,    *)
(* its channel included, and pc names the last section run.                *)
(***************************************************************************)

InitProver == InitProtocol

\* the next position of the prover after a section that left `st`
AfterSection(st, position) ==
    IF st.panic = "none" THEN position ELSE "prover_panicked"

ProveTrace ==
    /\ pc = "start"
    /\ \E st \in {prove_trace(oracle)} :
          /\ prover' = st
          /\ oracle' = st.orc
          /\ pc' = AfterSection(st, "trace_committed")
    /\ UNCHANGED <<proof, tamper, vres, fieldVars, merkleVars, channelVars, polyVars>>

ProveAlphas ==
    /\ pc = "trace_committed"
    /\ \E e1 \in ElemSamples, e2 \in ElemSamples :
       \E st \in {prove_alphas(prover, <<e1, e2>>)} :
          /\ prover' = st
          /\ oracle' = st.orc
          /\ pc' = AfterSection(st, "alphas_drawn")
    /\ UNCHANGED <<proof, tamper, vres, fieldVars, merkleVars, channelVars, polyVars>>

ProveCp ==
    /\ pc = "alphas_drawn"
    /\ \E st \in {prove_cp(prover)} :
          /\ prover' = st
          /\ oracle' = st.orc
          /\ pc' = AfterSection(st, "cp_committed")
    /\ UNCHANGED <<proof, tamper, vres, fieldVars, merkleVars, channelVars, polyVars>>

ProveFriDeg1 ==
    /\ pc = "cp_committed"
    /\ \E e3 \in ElemSamples :
       \E st \in {prove_fri_deg_1(prover, <<0, 0, e3>>)} :
          /\ prover' = st
          /\ oracle' = st.orc
          /\ pc' = AfterSection(st, "fri_deg_1_committed")
    /\ UNCHANGED <<proof, tamper, vres, fieldVars, merkleVars, channelVars, polyVars>>

ProveFriDeg0 ==
    /\ pc = "fri_deg_1_committed"
    /\ \E e4 \in ElemSamples :
       \E st \in {prove_fri_deg_0(prover, <<0, 0, 0, e4>>)} :
          /\ prover' = st
          /\ oracle' = st.orc
          /\ pc' = AfterSection(st, "fri_deg_0_folded")
    /\ UNCHANGED <<proof, tamper, vres, fieldVars, merkleVars, channelVars, polyVars>>

ProveQuery ==
    /\ pc = "fri_deg_0_folded"
    /\ \E i \in IntSamples :
       \E st \in {prove_query(prover, <<0, 0, 0, 0, i>>)} :
          /\ prover' = st
          /\ oracle' = st.orc
          /\ proof' = st.proof
          /\ pc' = AfterSection(st, "proved")
    /\ UNCHANGED <<tamper, vres, fieldVars, merkleVars, channelVars, polyVars>>

NextProver ==
    \/ ProveTrace
    \/ ProveAlphas
    \/ ProveCp
    \/ ProveFriDeg1
    \/ ProveFriDeg0
    \/ ProveQuery

SpecProver == InitProver /\ [][NextProver]_vars

(***************************************************************************)
(* The draws as steps.  One draw is made on a channel in a state the        *)
(* protocol's calls lead to: random_integer with any bound and any first    *)
(* byte of the digest, random_element with the sampled first four bytes,    *)
(* or the draws of one run of generate_proof and verify (the test of        *)
(* lib.rs), the query index read from any first byte.                       *)
(***************************************************************************)

\* the values of a u8
U8Values == 0 .. 255

\* a new channel, one that absorbed a commitment, one that made a draw
ChannelSamples ==
    {Channel_new, commit(Channel_new, leaf_hash(0)), rehash_after_draw(Channel_new)}

InitDraw ==
    /\ pc = "start"
    /\ proof = <<>>
    /\ oracle = <<>>
    /\ prover = <<>>
    /\ tamper = "none"
    /\ vres = <<>>
    /\ channel_a \in ChannelSamples
    /\ channel_b = <<>>
    /\ ops = <<>>
    /\ replayed = 0
    /\ draws_a = <<>>
    /\ draws_b = <<>>
    /\ IdleField
    /\ IdleMerkle
    /\ IdlePoly

\* channel_a.random_integer(upper_bound), the digest's first byte `byte`
DrawRandomInteger ==
    /\ pc = "start"
    /\ ops = <<>>
    /\ \E upper_bound \in U8Values, byte \in U8Values :
          /\ ops' = <<[op |-> "random_integer", upper_bound |-> upper_bound,
                       panic |-> random_integer_panics(upper_bound)]>>
          /\ oracle' = Bind(oracle, channel_a.current_hash, byte)
          /\ IF random_integer_panics(upper_bound)
             THEN UNCHANGED <<channel_a, draws_a>>
             ELSE \E d \in {random_integer(channel_a, oracle', upper_bound)} :
                     /\ channel_a' = d.channel
                     /\ draws_a' = <<d.ret>>
    /\ UNCHANGED <<channel_b, replayed, draws_b>>
    /\ UNCHANGED <<fieldVars, protocolVars, merkleVars, polyVars>>

\* channel_a.random_element(), the digest's first four bytes `bytes`
DrawRandomElement ==
    /\ pc = "start"
    /\ ops = <<>>
    /\ \E bytes \in I32Samples :
       \E d \in {prover_random_element(channel_a, oracle, bytes)} :
          /\ ops' = <<[op |-> "random_element"]>>
          /\ oracle' = d.orc
          /\ channel_a' = d.draw.channel
          /\ draws_a' = <<d.draw.ret>>
    /\ UNCHANGED <<channel_b, replayed, draws_b>>
    /\ UNCHANGED <<fieldVars, protocolVars, merkleVars, polyVars>>

\* generate_proof and then verify on its proof; the digests of the two
\* alphas start with the same bytes, and so do those of the two betas
DrawQueryIndex ==
    /\ pc = "start"
    /\ ops = <<>>
    /\ channel_a = Channel_new
    /\ \E alpha \in ElemSamples, beta \in ElemSamples, byte \in U8Values :
          \E g \in {generate_proof(oracle, <<alpha, alpha, beta, beta, byte>>)} :
              /\ pc' = IF g.panic = "none" THEN "verified" ELSE "prover_panicked"
              /\ proof' = g.proof
              /\ oracle' = g.orc
              /\ prover' = [k \in ProverKept |-> g[k]]
              /\ vres' = IF g.panic = "none" THEN verify(g.proof, g.orc) ELSE <<>>
    /\ UNCHANGED <<tamper, fieldVars, merkleVars, channelVars, polyVars>>

NextDraw ==
    \/ DrawRandomInteger
    \/ DrawRandomElement
    \/ DrawQueryIndex

SpecDraw == InitDraw /\ [][NextDraw]_vars

\* b^e mod 17 over the integers, the reference the claims are stated in
RECURSIVE PowMod(_, _)
PowMod(b, e) == IF e = 0 THEN 1 ELSE (PowMod(b, e - 1) * b) % PRIME

(***************************************************************************)
(* Claims about the prover and the verifier                                *)
(***************************************************************************)

\* the inverse of a nonzero residue mod 17, over the integers
InvMod(a) == PowMod(a % PRIME, PRIME - 2)

\* D_lde[idx] = 3 * 9^idx mod 17
RefX(idx) == (3 * PowMod(9, idx)) % PRIME

\* The value L0_x4 the verifier is to recompute from the opened values
\* t_x, t_gx, cp_mx, l1_mx, the challenges a0, a1, b1, b0 and the index idx,
\* over the integers mod 17.
RefL0(t_x, t_gx, cp_mx, l1_mx, a0, a1, b1, b0, idx) ==
    LET x == RefX(idx)
        boundary == ((t_x - 3) * InvMod(x - 1)) % PRIME
        transition == ((t_gx - t_x * t_x) * InvMod((x - 1) * (x - 13) * (x - 16))) % PRIME
        cp_x == (boundary * a0 + transition * a1) % PRIME
        l1_x == ((cp_x + cp_mx) * InvMod(2) + b1 * (cp_x - cp_mx) * InvMod(2 * x)) % PRIME
    IN  ((l1_x + l1_mx) * InvMod(2) + b0 * (l1_x - l1_mx) * InvMod(2 * x * x)) % PRIME

\* the value the verifier is to recompute for the proof it was handed
RefL0OfProof ==
    RefL0(proof.query_phase.trace_x.value,
          proof.query_phase.trace_gx.value,
          proof.query_phase.cp_minus_x.value,
          proof.query_phase.fri_layer_deg_1_minus_x.value,
          vres.alpha_0, vres.alpha_1, vres.beta_fri_deg_1, vres.beta_fri_deg_0,
          vres.query_idx)

\* every opened value of the proof is included under its committed root
AllInclusionsPass ==
    /\ verify_inclusion(proof.query_phase.trace_x.value,
                        proof.query_phase.trace_x.path,
                        proof.trace_lde_commitment)
    /\ verify_inclusion(proof.query_phase.trace_gx.value,
                        proof.query_phase.trace_gx.path,
                        proof.trace_lde_commitment)
    /\ verify_inclusion(proof.query_phase.cp_minus_x.value,
                        proof.query_phase.cp_minus_x.path,
                        proof.composition_poly_lde_commitment)
    /\ verify_inclusion(proof.query_phase.fri_layer_deg_1_minus_x.value,
                        proof.query_phase.fri_layer_deg_1_minus_x.path,
                        proof.fri_layer_deg_1_commitment)

MerkleMessages ==
    {"trace_x merkle proof verification failed",
     "trace_gx merkle proof verification failed",
     "cp_minus_x merkle proof verification failed",
     "fri_layer_deg_1_minus_x merkle proof verification failed"}

C2_TamperingRejected ==
    pc = "verified" /\ tamper \in {"root", "value", "sibling", "scalar"} =>
        vres.result \in MerkleMessages \cup {"Final FRI layer check failed"}

\* C2 witness: a proof with one changed sibling hash in the path of cp(-x)
\* has been rejected
C2_Witness ==
    /\ pc = "verified"
    /\ tamper = "sibling"
    /\ vres.result = "cp_minus_x merkle proof verification failed"

C4_VerifyNeverPanics ==
    pc = "verified" =>
        LET x == RefX(vres.query_idx)
        IN  /\ vres.result # "panic"
            /\ vres.query.result \notin {"panic", "Unsupported group size"}
            /\ vres.query_idx \in 0 .. 5
            /\ vres.query_idx < Len(DOMAIN_LDE)
            /\ vres.query.x = x
            /\ x # 0
            /\ \A k \in 1 .. Len(DOMAIN_TRACE) : DOMAIN_TRACE[k] # x
            /\ vres.query.divisors =
                   <<(x - 1) % PRIME, ((x - 1) * (x - 13) * (x - 16)) % PRIME,
                     2, (2 * x) % PRIME, 2, (2 * x * x) % PRIME>>
            /\ \A k \in 1 .. Len(vres.query.divisors) : vres.query.divisors[k] # 0

\* C4 witness: verify has run to its end on a proof with a changed opened
\* value, at index 0 (x = 3)
C4_Witness ==
    /\ pc = "verified"
    /\ tamper = "value"
    /\ vres.query_idx = 0
    /\ vres.query.x = 3
    /\ vres.result # "panic"

\* the value of the trace polynomial's low-degree extension at D_lde[idx],
\* for the index the verifier derived
TraceAtVerifierIndex == eval(trace_polynomial, DOMAIN_LDE[vres.query_idx + 1])

\* C5: a proof whose trace_x is not the trace polynomial's low-degree
\* extension at x = D_lde[idx], idx the index the verifier derives, is
\* rejected by verify, whatever its other fields are.
C5_WrongTraceValueRejected ==
    pc = "verified" /\ proof.query_phase.trace_x.value # TraceAtVerifierIndex =>
        vres.result # "ok"

\* C6: verify makes the channel operations of generate_proof in the same
\* order, so that on the three roots of the prover's proof it derives the
\* prover's alpha_0, alpha_1, beta_1, beta_0 and idx (and ends with the
\* prover's channel).
C6_SameChallenges ==
    pc = "verified" /\ tamper \in {"none", "value", "sibling", "scalar", "reopen"} =>
        /\ vres.alpha_0 = prover.alpha_0
        /\ vres.alpha_1 = prover.alpha_1
        /\ vres.beta_fri_deg_1 = prover.beta_fri_deg_1
        /\ vres.beta_fri_deg_0 = prover.beta_fri_deg_0
        /\ vres.query_idx = prover.query_idx
        /\ vres.channel = prover.channel
        /\ vres.channel.commitments =
               <<proof.trace_lde_commitment,
                 proof.composition_poly_lde_commitment,
                 proof.fri_layer_deg_1_commitment>>
        /\ vres.channel.count = 5

\* C6 witness: the verifier has derived beta_1 = 1, beta_0 = 0 and idx = 4,
\* as the prover did
C6_Witness ==
    /\ pc = "verified"
    /\ tamper = "none"
    /\ prover.beta_fri_deg_1 = 1
    /\ prover.beta_fri_deg_0 = 0
    /\ vres.beta_fri_deg_1 = 1
    /\ vres.beta_fri_deg_0 = 0
    /\ vres.query_idx = 4

(***************************************************************************)
(* Claims about the channel and the Merkle tree                            *)
(***************************************************************************)

\* the calls among the first n of ops that are draws
RECURSIVE DrawsAmong(_, _)
DrawsAmong(calls, n) ==
    IF n = 0
    THEN 0
    ELSE DrawsAmong(calls, n - 1) + (IF calls[n].op = "commit" THEN 0 ELSE 1)

\* the commitments among the first n of ops, in their order
RECURSIVE CommitsAmong(_, _)
CommitsAmong(calls, n) ==
    IF n = 0
    THEN <<>>
    ELSE CommitsAmong(calls, n - 1)
             \o (IF calls[n].op = "commit" THEN <<calls[n].commitment>> ELSE <<>>)

\* the digest a channel holds after the first n calls of ops: the salt's
\* digest, then for each call the digest of the one before followed by the
\* commitment (commit) or by the 8 bytes of the draw counter (a draw)
RECURSIVE TranscriptDigest(_, _)
TranscriptDigest(calls, n) ==
    IF n = 0
    THEN <<-1, 42, -2>>
    ELSE <<-1>> \o TranscriptDigest(calls, n - 1)
             \o (IF calls[n].op = "commit"
                 THEN calls[n].commitment
                 ELSE <<DrawsAmong(calls, n - 1), 0, 0, 0, 0, 0, 0, 0>>)
             \o <<-2>>

\* C7: two channels made by Channel::new that received the same calls (the
\* same commitments, interleaved with the same draws) returned the same
\* value from every draw and hold the same current_hash, count and
\* commitments: the state and the values returned are those the calls
\* alone determine.
C7_ChannelDeterminism ==
    /\ Len(draws_b) = DrawsAmong(ops, replayed)
    /\ draws_b = SubSeq(draws_a, 1, Len(draws_b))
    /\ channel_b.current_hash = TranscriptDigest(ops, replayed)
    /\ channel_b.count = DrawsAmong(ops, replayed)
    /\ channel_b.commitments = CommitsAmong(ops, replayed)
    /\ channel_a.current_hash = TranscriptDigest(ops, Len(ops))
    /\ replayed = Len(ops) =>
          /\ draws_b = draws_a
          /\ channel_b.current_hash = channel_a.current_hash
          /\ channel_b.count = channel_a.count
          /\ channel_b.commitments = channel_a.commitments

\* C7 witness: both channels received a draw, a commit and a second draw,
\* and both returned 16 and then 1
C7_Witness ==
    /\ Len(ops) = 3
    /\ replayed = 3
    /\ ops[1].op = "random_element"
    /\ ops[2].op = "commit"
    /\ ops[3].op = "random_element"
    /\ draws_a = <<16, 1>>
    /\ draws_b = <<16, 1>>

\* C8: the path MerklePath::new makes for leaf i of a tree over a
\* power-of-two leaf sequence verifies the leaf's value against the tree's
\* root; with the value replaced by a different field element, or one
\* sibling hash of the path replaced by a different hash, the verification
\* fails.
C8_MerkleRoundTrip ==
    /\ mpc \in {"opened", "handed", "verified"} =>
          /\ is_power_of_2(Len(tree_values))
          /\ leaf_index < Len(tree_values)
    /\ mpc = "verified" /\ mtamper = "none" =>
          /\ leaf_value = tree_values[leaf_index + 1]
          /\ included
    /\ mpc = "verified" /\ mtamper \in {"value", "sibling"} => ~included

\* C8 witness: the path of the last of four leaves, the third and fourth
\* equal, has verified the leaf
C8_Witness ==
    /\ mpc = "verified"
    /\ mtamper = "none"
    /\ Len(tree_values) = 4
    /\ tree_values[3] = tree_values[4]
    /\ leaf_index = 3
    /\ included

(***************************************************************************)
(* Claims about the field                                                  *)
(***************************************************************************)

\* C9: for all a, b in [0,16] the results of +, - and * equal (a+b) mod 17,
\* (a-b) mod 17 and (a*b) mod 17, lie in [0,17), and no intermediate of the
\* u8 computation overflows or underflows; every stored value stays in [0,17).
C9_FieldOpsExact ==
    /\ fop = "add" => fres = (fa + fb) % PRIME /\ ~fovf
    /\ fop = "sub" => fres = (fa - fb) % PRIME /\ ~fovf
    /\ fop = "mul" => fres = (fa * fb) % PRIME /\ ~fovf
    /\ fop \in {"add", "sub", "mul"} => fres \in GF /\ ~fpanic

\* C9 witness: 16 * 16 has been computed and gave 1
C9_Witness == fop = "mul" /\ fa = 16 /\ fb = 16 /\ fres = 1

\* C10: for nonzero a, a * a.mult_inv() = 1; for nonzero a, b, (a / b) * b = a
\* (1 / 2 = 9); the inverse is 3^(16-i) with i = log(a, 3) found in [0,16);
\* inverse of zero, division by zero and log of zero panic.
C10_InverseAndDivision ==
    /\ fop = "mult_inv" /\ fa # 0 =>
          /\ ~fpanic
          /\ (fa * fres) % PRIME = 1
          /\ \E i \in 0 .. 15 : PowMod(3, i) = fa /\ fres = PowMod(3, 16 - i)
    /\ fop = "div" /\ fa # 0 /\ fb # 0 => ~fpanic /\ (fres * fb) % PRIME = fa
    /\ fop = "div" /\ fa = 1 /\ fb = 2 => fres = 9
    /\ fop = "log" /\ fa # 0 => ~fpanic /\ fres \in 0 .. 15 /\ PowMod(3, fres) = fa
    /\ fop = "mult_inv" /\ fa = 0 => fpanic
    /\ fop = "div" /\ fb = 0 => fpanic
    /\ fop = "log" /\ fa = 0 => fpanic

\* C10 witness: 1 / 2 has been computed and gave 9
C10_Witness == fop = "div" /\ fa = 1 /\ fb = 2 /\ fres = 9 /\ ~fpanic

\* C11: for every a, a + a.minus() = 0; for every nonzero a, a.exp(16) = 1;
\* a.exp(0) = 1 and a.exp(1) = a.
C11_AdditiveInverseAndFermat ==
    /\ fop = "minus" =>
          /\ fres \in GF
          /\ (fa + fres) % PRIME = 0
          /\ add(fa, fres) = 0
          /\ ~add_overflows(fa, fres)
          /\ ~fovf
    /\ fop = "exp" =>
          /\ fres = PowMod(fa, fb)
          /\ ~fovf
          /\ fb = 0 => fres = 1
          /\ fb = 1 => fres = fa
          /\ fa # 0 /\ fb = PRIME - 1 => fres = 1

\* C11 witness: 4.exp(16) has been computed and gave 1
C11_Witness == fop = "exp" /\ fa = 4 /\ fb = 16 /\ fres = 1

\* the least non-negative residue of an integer mod 17
Residue(n) == n % PRIME

\* C12: BaseField::from(n) for an i32 n is the least non-negative residue
\* ((n mod 17) + 17) mod 17, for negative n and the ends of the i32 range
\* too (-1 gives 16, -100 gives 2), with no overflow in the addition or in
\* the narrowing to u8.
C12_SignedConversion ==
    fop = "from_i32" =>
        /\ fres \in GF
        /\ fres = Residue(fa)
        /\ ~fovf
        /\ fa = -1 => fres = 16
        /\ fa = -100 => fres = 2

\* C12 witness: the least i32 has been converted
C12_Witness == fop = "from_i32" /\ fa = -2147483647 - 1 /\ fres \in GF /\ ~fovf

(***************************************************************************)
(* Claims about the polynomials                                            *)
(***************************************************************************)

\* the value of a coefficient list at x over the integers, mod 17
RECURSIVE RefEval(_, _, _)
RefEval(p, x, n) ==
    IF n = 0 THEN 0 ELSE (RefEval(p, x, n - 1) + p[n] * PowMod(x, n - 1)) % PRIME

Max(m, n) == IF m >= n THEN m ELSE n

\* C13: for all polynomials p, q (of equal or different lengths) and every
\* x, (p + q).eval(x) = p.eval(x) + q.eval(x) and (p * q).eval(x) =
\* p.eval(x) * q.eval(x); the sum has max(len p, len q) coefficients and the
\* product len p + len q - 1.
C13_EvalIsHomomorphic ==
    /\ poly_op \in {"add", "mul"} =>
          /\ poly_out.p_x = RefEval(poly_in.p, poly_in.x, Len(poly_in.p))
          /\ poly_out.q_x = RefEval(poly_in.q, poly_in.x, Len(poly_in.q))
          /\ poly_out.at_x = RefEval(poly_out.poly, poly_in.x, Len(poly_out.poly))
          /\ \A k \in 1 .. Len(poly_out.poly) : poly_out.poly[k] \in GF
    /\ poly_op = "add" =>
          /\ poly_out.at_x = add(poly_out.p_x, poly_out.q_x)
          /\ poly_out.at_x = (poly_out.p_x + poly_out.q_x) % PRIME
          /\ Len(poly_out.poly) = Max(Len(poly_in.p), Len(poly_in.q))
    /\ poly_op = "mul" =>
          /\ poly_out.at_x = mul(poly_out.p_x, poly_out.q_x)
          /\ poly_out.at_x = (poly_out.p_x * poly_out.q_x) % PRIME
          /\ Len(poly_out.poly) = Len(poly_in.p) + Len(poly_in.q) - 1

\* C13 witness: a polynomial of one coefficient has been added to one of
\* three, with a nonzero last coefficient, and the sum evaluated at 16
C13_Witness ==
    /\ poly_op = "add"
    /\ Len(poly_in.p) = 1
    /\ Len(poly_in.q) = 3
    /\ poly_in.q[3] # 0
    /\ poly_in.x = 16
    /\ Len(poly_out.poly) = 3

\* C14: for every n >= 1 and every list of n distinct points with n
\* values, lagrange_interp returns a polynomial whose degree() is less than
\* n and whose eval at each x_j is y_j; on D_trace with [3,9,13,16] it
\* returns [6,16,2,13].  For no samples it returns [0], of degree() 0.
C14_LagrangeRoundTrip ==
    poly_op = "lagrange_interp" =>
        LET n == Len(poly_in.domain)
        IN  /\ poly_out.err <=> Len(poly_in.evaluations) # n
            /\ ~poly_out.err /\ n >= 1 =>
                  /\ poly_out.degree < n
                  /\ Len(poly_out.poly) = n
                  /\ poly_out.evals = poly_in.evaluations
                  /\ \A j \in 1 .. n :
                        RefEval(poly_out.poly, poly_in.domain[j], n)
                            = poly_in.evaluations[j]
            /\ ~poly_out.err /\ n = 0 =>
                  poly_out.poly = <<0>> /\ poly_out.degree = 0
            /\ poly_in.domain = <<1, 13, 16, 4>> /\ poly_in.evaluations = <<3, 9, 13, 16>> =>
                  poly_out.poly = <<6, 16, 2, 13>>

\* C14 witness: the trace has been interpolated over D_trace
C14_Witness ==
    /\ poly_op = "lagrange_interp"
    /\ poly_in.domain = DOMAIN_TRACE
    /\ poly_in.evaluations = <<3, 9, 13, 16>>
    /\ poly_out.poly = <<6, 16, 2, 13>>

\* C14 as stated, for every n: the polynomial lagrange_interp returns for n
\* distinct points and n values has degree() less than n and reproduces
\* the values.
C14_LagrangeRoundTripEveryN ==
    poly_op = "lagrange_interp" /\ ~poly_out.err =>
        /\ poly_out.degree < Len(poly_in.domain)
        /\ poly_out.evals = poly_in.evaluations

\* the right-hand side of the fold identity over the integers mod 17, for
\* the values p_x = p(x), p_mx = p(-x) and x # 0
RefFold(p_x, p_mx, beta, x) ==
    ((p_x + p_mx) * InvMod(2) + beta * (p_x - p_mx) * InvMod(2 * x)) % PRIME

\* C15: for every polynomial p of at least two coefficients (an even or an
\* odd number of them), every beta and every x # 0,
\* p.fri_step(beta).eval(x^2) = (p(x) + p(-x))/2 + beta * (p(x) - p(-x))/(2x),
\* the equation verify_query uses; the divisions do not panic.
C15_FoldIdentity ==
    poly_op = "fri_step" /\ ~poly_out.panic /\ poly_in.x # 0 =>
        /\ poly_out.p_x = RefEval(poly_in.p, poly_in.x, Len(poly_in.p))
        /\ poly_out.p_minus_x =
               RefEval(poly_in.p, (PRIME - poly_in.x) % PRIME, Len(poly_in.p))
        /\ ~poly_out.quotient_panics
        /\ poly_out.at_x_squared =
               add(poly_out.g_x_squared, mul(poly_in.beta, poly_out.h_x_squared))
        /\ poly_out.at_x_squared =
               RefFold(poly_out.p_x, poly_out.p_minus_x, poly_in.beta, poly_in.x)

\* C15 witness: a polynomial of three coefficients has been folded with
\* beta = 7 and the fold evaluated at 3^2
C15_Witness ==
    /\ poly_op = "fri_step"
    /\ ~poly_out.panic
    /\ Len(poly_in.p) = 3
    /\ poly_in.p[3] # 0
    /\ poly_in.beta = 7
    /\ poly_in.x = 3
    /\ poly_out.at_x_squared =
           add(poly_out.g_x_squared, mul(7, poly_out.h_x_squared))

\* C15 as stated, for every x in GF(17): the quotients are taken and the
\* fold at x^2 equals (p(x) + p(-x))/2 + beta * (p(x) - p(-x))/(2x).
C15_FoldIdentityEveryX ==
    poly_op = "fri_step" /\ ~poly_out.panic =>
        /\ ~poly_out.quotient_panics
        /\ poly_out.at_x_squared =
               add(poly_out.g_x_squared, mul(poly_in.beta, poly_out.h_x_squared))

\* C16: fri_step(p, beta) returns the list whose i-th entry is
\* even[i] + beta * odd[i], even and odd the even-indexed and odd-indexed
\* coefficients of p (an entry of even without one of odd is kept as it
\* is); [1,2,3,4] with beta = 7 gives [15,14] and [2,3] gives [2 + 3*7]; on
\* a single coefficient it panics.
C16_FoldCoefficients ==
    poly_op = "fri_step" =>
        LET p == poly_in.p
            beta == poly_in.beta
        IN  /\ poly_out.panic <=> Len(p) = 1
            /\ ~poly_out.panic =>
                  /\ Len(poly_out.poly) = (Len(p) + 1) \div 2
                  /\ \A i \in 1 .. Len(poly_out.poly) :
                        poly_out.poly[i] =
                            (p[2 * i - 1]
                                + beta * (IF 2 * i <= Len(p) THEN p[2 * i] ELSE 0)) % PRIME
            /\ p = <<1, 2, 3, 4>> /\ beta = 7 => poly_out.poly = <<15, 14>>
            /\ p = <<2, 3>> /\ beta = 7 => poly_out.poly = <<6>>

\* C16 witness: [1,2,3,4] has been folded with beta = 7 into [15,14]
C16_Witness ==
    /\ poly_op = "fri_step"
    /\ poly_in.p = <<1, 2, 3, 4>>
    /\ poly_in.beta = 7
    /\ ~poly_out.panic
    /\ poly_out.poly = <<15, 14>>

\* C26: fri_step on a polynomial of at least two coefficients returns a
\* polynomial whose degree() is half the input's degree(), rounded down,
\* and strictly smaller than the input's degree().
C26_FoldHalvesDegree ==
    poly_op = "fri_step" /\ Len(poly_in.p) >= 2 =>
        /\ ~poly_out.panic
        /\ poly_in.degree = Len(poly_in.p) - 1
        /\ poly_out.degree = Len(poly_out.poly) - 1
        /\ 2 * poly_out.degree <= poly_in.degree
        /\ poly_in.degree <= 2 * poly_out.degree + 1
        /\ poly_out.degree < poly_in.degree

\* C26 witness: four coefficients, degree 3, have been folded into two,
\* degree 1
C26_Witness ==
    /\ poly_op = "fri_step"
    /\ Len(poly_in.p) = 4
    /\ poly_in.degree = 3
    /\ ~poly_out.panic
    /\ poly_out.degree = 1

\* C26 as stated: the degree of the result is half the input's degree
\* rounded up, and strictly smaller
C26_FoldHalvesDegreeRoundedUp ==
    poly_op = "fri_step" /\ Len(poly_in.p) >= 2 =>
        /\ ~poly_out.panic
        /\ poly_in.degree <= 2 * poly_out.degree
        /\ 2 * poly_out.degree <= poly_in.degree + 1
        /\ poly_out.degree < poly_in.degree

(***************************************************************************)
(* Claims about the domains, the constraints and the folds                 *)
(***************************************************************************)

\* C17: CyclicGroup::new(4) returns [1,13,16,4], element by element
\* DOMAIN_TRACE; CyclicGroup::new(8) returns the subgroup
\* [1,9,13,15,16,8,4,2] shifted by 3, [3,10,5,11,14,7,12,6], element by
\* element DOMAIN_LDE; for every other size it returns an error.
C17_GroupsAreTheDomains ==
    poly_op = "group_new" =>
        /\ poly_out.err <=> poly_in.size \notin {4, 8}
        /\ poly_in.size = 4 =>
              /\ poly_out.elements = <<1, 13, 16, 4>>
              /\ poly_out.elements = DOMAIN_TRACE
              /\ \A k \in 1 .. 4 : poly_out.elements[k] = PowMod(13, k - 1)
        /\ poly_in.size = 8 =>
              /\ poly_out.elements = <<3, 10, 5, 11, 14, 7, 12, 6>>
              /\ poly_out.elements = DOMAIN_LDE
              /\ \A k \in 1 .. 8 :
                    /\ poly_out.elements[k] = (3 * <<1, 9, 13, 15, 16, 8, 4, 2>>[k]) % PRIME
                    /\ poly_out.elements[k] = RefX(k - 1)

\* C17 witness: CyclicGroup::new(8) has returned eight elements, the first 3
C17_Witness ==
    /\ poly_op = "group_new"
    /\ poly_in.size = 8
    /\ ~poly_out.err
    /\ Len(poly_out.elements) = 8
    /\ poly_out.elements[1] = 3

\* C18: with T the interpolant of [3,9,13,16] over D_trace, for every x
\* the polynomial [14,15,13] satisfies Q_bdry(x) * (x - 1) = T(x) - 3 and
\* [16,9,12,1] satisfies Q_trans(x) * (x-1)(x-13)(x-16) = T(13x) - T(x)^2;
\* and for every x in D_lde and all alpha_0, alpha_1 the verifier's
\* alpha_0*(T(x)-3)/(x-1) + alpha_1*(T(gx)-T(x)^2)/((x-1)(x-13)(x-16))
\* equals composition_polynomial(alpha_0, alpha_1).eval(x).
C18_ConstraintsAreQuotients ==
    /\ poly_op = "quotient_eval" =>
          LET x == poly_in.x
          IN  /\ boundary_constraint = <<14, 15, 13>>
              /\ transition_constraint = <<16, 9, 12, 1>>
              /\ poly_out.t_x = RefEval(<<6, 16, 2, 13>>, x, 4)
              /\ poly_out.t_gx = RefEval(<<6, 16, 2, 13>>, (13 * x) % PRIME, 4)
              /\ poly_out.boundary_x = RefEval(<<14, 15, 13>>, x, 3)
              /\ poly_out.transition_x = RefEval(<<16, 9, 12, 1>>, x, 4)
              /\ (poly_out.boundary_x * (x - 1)) % PRIME = (poly_out.t_x - 3) % PRIME
              /\ (poly_out.transition_x * (x - 1) * (x - 13) * (x - 16)) % PRIME
                     = (poly_out.t_gx - poly_out.t_x * poly_out.t_x) % PRIME
    /\ poly_op = "reconstruct" =>
          LET x == RefX(poly_in.idx)
              t_x == poly_in.queries.trace_x.value
              t_gx == poly_in.queries.trace_gx.value
          IN  /\ poly_out.verifier.x = x
              /\ poly_out.verifier.result # "panic"
              /\ poly_out.verifier.cp_x = poly_out.cp_at_x
              /\ poly_out.cp_at_x =
                     (poly_in.alpha_0 * (t_x - 3) * InvMod(x - 1)
                         + poly_in.alpha_1 * (t_gx - t_x * t_x)
                               * InvMod((x - 1) * (x - 13) * (x - 16))) % PRIME

\* C18 witness: the verifier has rebuilt the composition polynomial's value
\* at D_lde[7] = 6 for alpha_0 = 2 and alpha_1 = 5
C18_Witness ==
    /\ poly_op = "reconstruct"
    /\ poly_in.idx = 7
    /\ poly_in.alpha_0 = 2
    /\ poly_in.alpha_1 = 5
    /\ poly_out.verifier.x = 6
    /\ poly_out.verifier.cp_x = poly_out.cp_at_x

\* C20: for every alpha_0, alpha_1, beta_1, beta_0 (zero included) the
\* composition polynomial has 4 coefficients, the first fold 2, the second
\* fold 1, the last domain exactly 2 elements on which the last fold takes
\* one value, and neither assertion of the prover fails.
C20_FoldShapes ==
    poly_op = "folds" =>
        /\ Len(poly_out.cp) = 4
        /\ degree(poly_out.cp) <= 3
        /\ Len(poly_out.fri_layer_deg_1_poly) = 2
        /\ Len(poly_out.fri_layer_deg_0_poly) = 1
        /\ Len(poly_out.domain_deg_1) = 4
        /\ Len(poly_out.domain_deg_0) = 2
        /\ poly_out.last_layer_evals[1] = poly_out.last_layer_evals[2]
        /\ poly_out.last_layer_evals[1] = poly_out.fri_layer_deg_0_poly[1]
        /\ poly_out.panic = "none"

\* C20 witness: the folds have been made with all four challenges zero
C20_Witness ==
    /\ poly_op = "folds"
    /\ poly_in = [alpha_0 |-> 0, alpha_1 |-> 0, beta_fri_deg_1 |-> 0, beta_fri_deg_0 |-> 0]
    /\ Len(poly_out.cp) = 4
    /\ poly_out.panic = "none"

\* the additive inverse of a residue mod 17, over the integers
NegMod(a) == (PRIME - (a % PRIME)) % PRIME

\* C21: for every query index idx in [0,6) the positions the prover opens
\* are the points the verifier's equations assume: D_lde[idx+2] =
\* 13 * D_lde[idx], D_lde[(idx+4) mod 8] = -D_lde[idx], D1[idx mod 4] =
\* D_lde[idx]^2 and D1[(idx mod 4 + 2) mod 4] = -D_lde[idx]^2, where
\* D1 = [9,15,8,2] is the squared first half of D_lde and equals the squared
\* second half; the two elements of D0, the squared first half of D1,
\* negate each other.  The values opened are those of the trace polynomial,
\* CP and the layer-1 polynomial at these points.
C21_OpenedPositions ==
    poly_op = "query" =>
        LET idx == poly_in.query_idx
            x == <<3, 10, 5, 11, 14, 7, 12, 6>>[idx + 1]
            D1 == poly_out.domain_deg_1
            D0 == poly_out.domain_deg_0
            q == poly_out.queries
        IN  /\ poly_out.x = x
            /\ poly_out.gx = (13 * x) % PRIME
            /\ poly_out.minus_x = NegMod(x)
            /\ D1 = <<9, 15, 8, 2>>
            /\ \A k \in 1 .. 4 :
                  /\ D1[k] = (DOMAIN_LDE[k] * DOMAIN_LDE[k]) % PRIME
                  /\ D1[k] = (DOMAIN_LDE[k + 4] * DOMAIN_LDE[k + 4]) % PRIME
            /\ poly_out.fri_1_x = (x * x) % PRIME
            /\ poly_out.fri_1_minus_x = NegMod(x * x)
            /\ Len(D0) = 2
            /\ \A k \in 1 .. 2 : D0[k] = (D1[k] * D1[k]) % PRIME
            /\ (D0[1] + D0[2]) % PRIME = 0
            /\ q.trace_x.value = RefEval(<<6, 16, 2, 13>>, x, 4)
            /\ q.trace_gx.value = RefEval(<<6, 16, 2, 13>>, (13 * x) % PRIME, 4)
            /\ q.cp_minus_x.value = RefEval(poly_out.cp, NegMod(x), Len(poly_out.cp))
            /\ q.fri_layer_deg_1_minus_x.value
                   = RefEval(poly_out.fri_layer_deg_1_poly, NegMod(x * x),
                             Len(poly_out.fri_layer_deg_1_poly))

\* C21 witness: the index 5 (x = 7) has been opened: 13x = 6, -x = 10,
\* x^2 = 15, -x^2 = 2
C21_Witness ==
    /\ poly_op = "query"
    /\ poly_in.query_idx = 5
    /\ poly_out.x = 7
    /\ poly_out.gx = 6
    /\ poly_out.minus_x = 10
    /\ poly_out.fri_1_x = 15
    /\ poly_out.fri_1_minus_x = 2
    /\ poly_out.domain_deg_0 = <<13, 4>>

(***************************************************************************)
(* Claims about the order of the prover's transcript                       *)
(***************************************************************************)

\* the sections of generate_proof in their order, and how many channel
\* calls have been made when each has run
ProverPositions ==
    <<"trace_committed", "alphas_drawn", "cp_committed", "fri_deg_1_committed",
      "fri_deg_0_folded", "proved">>

CallsMadeAt(position) ==
    CASE position = "trace_committed" -> 1
      [] position = "alphas_drawn" -> 3
      [] position = "cp_committed" -> 4
      [] position = "fri_deg_1_committed" -> 6
      [] position = "fri_deg_0_folded" -> 7
      [] position = "proved" -> 8
      [] OTHER -> 0

\* the root a tree of the prover has, <<>> while the tree is not built
RootOf(st, tree) == IF tree \in DOMAIN st THEN st[tree].root ELSE <<>>

\* the channel calls of the protocol in their order: commit the trace
\* root, draw alpha_0 and alpha_1, commit the CP root, draw beta_1, commit
\* the FRI layer-1 root, draw beta_0, draw the query index
ProtocolCalls(st) ==
    <<[op |-> "commit", commitment |-> RootOf(st, "trace_lde_merkleized")],
      [op |-> "random_element"],
      [op |-> "random_element"],
      [op |-> "commit", commitment |-> RootOf(st, "cp_lde_merkleized")],
      [op |-> "random_element"],
      [op |-> "commit", commitment |-> RootOf(st, "fri_layer_deg_1_merkleized")],
      [op |-> "random_element"],
      [op |-> "random_integer"]>>

\* the challenge read from the digest the channel holds after n calls
ElementReadAfter(st, n) ==
    LET digest == TranscriptDigest(ProtocolCalls(st), n)
    IN  (IF digest \in DOMAIN oracle THEN oracle[digest] ELSE DefaultBytes(digest))
            % PRIME

\* C19: in generate_proof every challenge is drawn only after the
\* commitment it depends on was absorbed: alpha_0, alpha_1 after the trace
\* root, beta_1 after the CP root, beta_0 after the layer-1 root, the query
\* index after all three; at finalize exactly 3 commitments were absorbed,
\* trace, CP, layer 1 in this order, and they are the proof's three
\* commitments in this order; the count assertion never fires.
C19_ChallengesAfterCommitments ==
    /\ pc # "prover_panicked"
    /\ pc \in {ProverPositions[k] : k \in 1 .. 6} =>
          LET calls == ProtocolCalls(prover)
              n == CallsMadeAt(pc)
          IN  /\ prover.panic = "none"
              /\ prover.channel.current_hash = TranscriptDigest(calls, n)
              /\ prover.channel.commitments = CommitsAmong(calls, n)
              /\ prover.channel.count = DrawsAmong(calls, n)
              /\ n >= 1 =>
                    prover.trace_lde_merkleized.root
                        = MerkleTree_new(eval_domain(<<6, 16, 2, 13>>, DOMAIN_LDE)).root
              /\ n >= 3 =>
                    /\ prover.alpha_0 = ElementReadAfter(prover, 1)
                    /\ prover.alpha_1 = ElementReadAfter(prover, 2)
              /\ n >= 4 =>
                    prover.cp_lde_merkleized.root
                        = MerkleTree_new(eval_domain(prover.cp, DOMAIN_LDE)).root
              /\ n >= 6 =>
                    /\ prover.beta_fri_deg_1 = ElementReadAfter(prover, 4)
                    /\ prover.fri_layer_deg_1_merkleized.root
                           = MerkleTree_new(eval_domain(prover.fri_layer_deg_1_poly,
                                                        prover.domain_deg_1)).root
              /\ n >= 7 => prover.beta_fri_deg_0 = ElementReadAfter(prover, 6)
              /\ n >= 8 =>
                    /\ prover.query_idx
                           = (first_byte(oracle, TranscriptDigest(calls, 7))) % 6
                    /\ Len(prover.channel.commitments) = 3
                    /\ proof.trace_lde_commitment = prover.trace_lde_merkleized.root
                    /\ proof.composition_poly_lde_commitment
                           = prover.cp_lde_merkleized.root
                    /\ proof.fri_layer_deg_1_commitment
                           = prover.fri_layer_deg_1_merkleized.root

\* C19 witness: the prover has assembled a proof after drawing beta_1 = 16
\* and the index 3, with three commitments absorbed
C19_Witness ==
    /\ pc = "proved"
    /\ prover.beta_fri_deg_1 = 16
    /\ prover.query_idx = 3
    /\ Len(prover.channel.commitments) = 3
    /\ proof.fri_layer_deg_1_commitment = prover.channel.commitments[3]

(***************************************************************************)
(* Claims about square and the trace                                       *)
(***************************************************************************)

\* C27: for every a in [0,16], a.square() equals a * a = a^2 mod 17, lies
\* in [0,16], and no intermediate of its u8 computation leaves the range of
\* u8; generate_trace, which uses square, returns [3,9,13,16].
C27_SquareExact ==
    /\ fop = "square" =>
          /\ ~fovf
          /\ ~fpanic
          /\ fres \in GF
          /\ fres = (fa * fa) % PRIME
          /\ fres = mul(fa, fa)
    /\ generate_trace = <<3, 9, 13, 16>>

\* what holds of square: it is exact wherever a * a fits u8, which is every
\* a up to 15, and the trace squares only 3, 9 and 13
C27_SquareExactBelow16 ==
    /\ fop = "square" /\ fa # PRIME - 1 =>
          /\ ~fovf
          /\ ~fpanic
          /\ fres = (fa * fa) % PRIME
          /\ fres = mul(fa, fa)
    /\ fop = "square" /\ fa = PRIME - 1 =>
          /\ fovf
          /\ fpanic \/ fres = 0
    /\ generate_trace = <<3, 9, 13, 16>>
    /\ \A k \in 1 .. 3 : ~square_overflows(generate_trace[k])

\* 16.square() has been computed in a build that wraps, and gave 0
C27_Witness == fop = "square" /\ fa = 16 /\ ~fpanic /\ fres = 0

(***************************************************************************)
(* Claims about the effect of each channel call                            *)
(***************************************************************************)

\* what a call does to a channel: `before` and `after` are the channel
\* around the call, the digests written out as byte strings
CallEffect(before, after, call) ==
    IF call.op = "commit"
    THEN /\ after.commitments = before.commitments \o <<call.commitment>>
         /\ after.current_hash
                = <<-1>> \o before.current_hash \o call.commitment \o <<-2>>
         /\ after.count = before.count
    ELSE /\ after.commitments = before.commitments
         /\ after.current_hash
                = <<-1>> \o before.current_hash
                    \o <<before.count, 0, 0, 0, 0, 0, 0, 0>> \o <<-2>>
         /\ after.count = before.count + 1

\* a channel changes only by a call, and as the call says
ChannelStep ==
    /\ channel_a' # channel_a =>
          /\ Len(ops') = Len(ops) + 1
          /\ SubSeq(ops', 1, Len(ops)) = ops
          /\ CallEffect(channel_a, channel_a', ops'[Len(ops')])
    /\ ops' # ops => channel_a' # channel_a
    /\ channel_b' # channel_b =>
          /\ replayed' = replayed + 1
          /\ CallEffect(channel_b, channel_b', ops[replayed'])
    /\ replayed' # replayed => channel_b' # channel_b

\* C25: in every reachable channel state count is the number of draws made
\* and commitments the absorbed commitments in absorption order; commit(c)
\* appends exactly c, replaces current_hash by hash(current_hash || c) and
\* leaves count; random_element and random_integer replace current_hash by
\* hash(current_hash || count), add exactly 1 to count and leave
\* commitments; finalize returns the commitments unchanged.
C25_ChannelFrame ==
    /\ [](/\ channel_a.count = DrawsAmong(ops, Len(ops))
          /\ channel_a.count = Len(draws_a)
          /\ channel_a.commitments = CommitsAmong(ops, Len(ops))
          /\ finalize(channel_a) = CommitsAmong(ops, Len(ops))
          /\ channel_b.count = Len(draws_b)
          /\ finalize(channel_b) = CommitsAmong(ops, replayed))
    /\ [][ChannelStep]_vars

\* C25 witness: a channel absorbed two different commitments around one
\* draw, and holds them in that order with count 1
C25_Witness ==
    /\ Len(ops) = 3
    /\ ops[1].op = "commit"
    /\ ops[2].op = "random_integer"
    /\ ops[3].op = "commit"
    /\ ops[1].commitment # ops[3].commitment
    /\ channel_a.commitments = <<ops[1].commitment, ops[3].commitment>>
    /\ channel_a.count = 1
    /\ replayed = 3
    /\ finalize(channel_b) = channel_a.commitments

(***************************************************************************)
(* Claims about the range of the draws                                     *)
(***************************************************************************)

\* the first byte of the one digest read so far
ByteRead == CHOOSE b \in U8Values : \A digest \in DOMAIN oracle : oracle[digest] % 256 = b

\* C22: random_integer(upper) returns a value in [0, upper) for every
\* upper >= 1 and every channel state, and random_element a value in
\* [0,17); so the query index prover and verifier draw with upper = 6 is in
\* [0,6), idx + 2 <= 7, and every index the prover uses to read trace_lde,
\* cp_lde, the layer-1 evaluations and the Merkle trees is in bounds (no
\* MerklePath::new call returns an error).
C22_DrawsInRange ==
    /\ ops # <<>> /\ ops[1].op = "random_integer" /\ ops[1].upper_bound >= 1 =>
          /\ ~ops[1].panic
          /\ Len(draws_a) = 1
          /\ draws_a[1] >= 0
          /\ draws_a[1] < ops[1].upper_bound
          /\ draws_a[1] = ByteRead % ops[1].upper_bound
    /\ ops # <<>> /\ ops[1].op = "random_element" =>
          /\ Len(draws_a) = 1
          /\ draws_a[1] \in 0 .. 16
    /\ pc # "prover_panicked"
    /\ pc = "verified" =>
          /\ prover.panic = "none"
          /\ prover.query_idx \in 0 .. 5
          /\ vres.query_idx = prover.query_idx
          /\ prover.query_idx + 2 <= 7
          /\ Len(trace_lde) = 8
          /\ Len(eval_domain(prover.cp, DOMAIN_LDE)) = 8
          /\ (prover.query_idx + 4) % 8 < 8
          /\ Len(eval_domain(prover.fri_layer_deg_1_poly, prover.domain_deg_1)) = 4
          /\ ((prover.query_idx % 4) + 2) % 4 < 4
          /\ Len(proof.query_phase.trace_x.path) = 3
          /\ Len(proof.query_phase.trace_gx.path) = 3
          /\ Len(proof.query_phase.cp_minus_x.path) = 3
          /\ Len(proof.query_phase.fri_layer_deg_1_minus_x.path) = 2

\* C22 witness: the digest's first byte was 255 and the index drawn from it
\* with the bound 6 is 3; the prover opened the leaves 3, 5, 7 and 1
C22_Witness ==
    /\ pc = "verified"
    /\ prover.panic = "none"
    /\ prover.query_idx = 3
    /\ \E digest \in DOMAIN oracle : oracle[digest] = 255
    /\ proof.query_phase.trace_gx.value = trace_lde[6]

(***************************************************************************)
(* Claims about the shape of the tree and of its paths                     *)
(***************************************************************************)

\* the digest of the node `index` (from 0) of layer `level` (leaves: 1) of
\* the tree over values, written out as a byte string
RECURSIVE RefNode(_, _, _)
RefNode(values, level, index) ==
    IF level = 1
    THEN <<-1, values[index + 1], -2>>
    ELSE <<-1>> \o RefNode(values, level - 1, 2 * index)
             \o RefNode(values, level - 1, 2 * index + 1) \o <<-2>>

\* the ancestor at layer j of leaf i, and that ancestor's sibling
AncestorAt(i, j) == i \div (2 ^ (j - 1))

SiblingOf(index) == IF index % 2 = 1 THEN index - 1 ELSE index + 1

\* k with 2^k = n, or -1 when n is not a power of two
Log2(n) == IF \E k \in 0 .. n : 2 ^ k = n THEN CHOOSE k \in 0 .. n : 2 ^ k = n ELSE -1

\* the path as it was made, before anyone changed it
PathMade == mpc = "opened" \/ (mpc = "verified" /\ mtamper = "none")

\* C23: each entry of MerklePath::new(tree, i) records the hash of the
\* node's sibling, with position Left exactly when the current node is the
\* right child of its parent (the bit of i is 1) and Right exactly when it
\* is the left child, also when the two children of a parent hold equal
\* values and so equal hashes.
C23_SiblingPositions ==
    PathMade =>
        \A j \in 1 .. Len(merkle_path) :
            /\ merkle_path[j].hash
                   = RefNode(tree_values, j, SiblingOf(AncestorAt(leaf_index, j)))
            /\ merkle_path[j].position = "Left" <=> AncestorAt(leaf_index, j) % 2 = 1
            /\ merkle_path[j].position = "Right" <=> AncestorAt(leaf_index, j) % 2 = 0

\* what holds of the positions: the hash is the sibling's, and the position
\* is Left exactly when the node is the right child and its hash differs
\* from the left child's; a right child equal to the left child is taken
\* for the left child.  The path verifies the leaf all the same.
C23_SiblingPositionsByHash ==
    /\ PathMade =>
          \A j \in 1 .. Len(merkle_path) :
              /\ merkle_path[j].hash
                     = RefNode(tree_values, j, SiblingOf(AncestorAt(leaf_index, j)))
              /\ merkle_path[j].position \in {"Left", "Right"}
              /\ merkle_path[j].position = "Left" <=>
                     /\ AncestorAt(leaf_index, j) % 2 = 1
                     /\ RefNode(tree_values, j, AncestorAt(leaf_index, j))
                            # RefNode(tree_values, j, AncestorAt(leaf_index, j) - 1)
    /\ mpc = "verified" /\ mtamper = "none" => included

\* the right one of two equal leaves has been opened, and its entry says
\* Right
C23_Witness ==
    /\ mpc = "opened"
    /\ tree_values = <<1, 1>>
    /\ leaf_index = 1
    /\ merkle_path = <<[hash |-> <<-1, 1, -2>>, position |-> "Right"]>>

\* C24: MerkleTree::new panics for every leaf count that is not a power of
\* two, 0 included; for N = 2^k leaves the root has no parent, every path
\* MerklePath::new(tree, i) with i < N has exactly k entries ordered leaf to
\* root, and MerklePath::new with i >= N returns an error.
C24_TreeShape ==
    /\ mpc = "tree_panicked" <=> mpc # "start" /\ Log2(Len(tree_values)) = -1
    /\ mpc = "tree_panicked" => merkle_root = <<>> /\ merkle_path = <<>>
    /\ mpc \notin {"start", "tree_panicked"} =>
          /\ Len(MerkleTree_new(tree_values).layers) = Log2(Len(tree_values)) + 1
          /\ Len(MerkleTree_new(tree_values).layers[Log2(Len(tree_values)) + 1]) = 1
          /\ ~has_parent(MerkleTree_new(tree_values), Log2(Len(tree_values)) + 1)
          /\ \A level \in 1 .. Log2(Len(tree_values)) :
                has_parent(MerkleTree_new(tree_values), level)
          /\ merkle_root = RefNode(tree_values, Log2(Len(tree_values)) + 1, 0)
    /\ mpc = "no_path" <=>
          /\ mpc \notin {"start", "tree_panicked"}
          /\ leaf_index >= Len(tree_values)
    /\ mpc = "no_path" => merkle_path = <<>>
    /\ mpc = "opened" =>
          /\ leaf_index < Len(tree_values)
          /\ Len(merkle_path) = Log2(Len(tree_values))
          /\ \A j \in 1 .. Len(merkle_path) :
                merkle_path[j].hash
                    = RefNode(tree_values, j, SiblingOf(AncestorAt(leaf_index, j)))

\* C24 witness: the path of leaf 2 of four leaves has two entries, the leaf
\* 3 and then the node over the leaves 0 and 1
C24_Witness ==
    /\ mpc = "opened"
    /\ tree_values = <<0, 1, 2, 0>>
    /\ leaf_index = 2
    /\ Len(merkle_path) = 2
    /\ merkle_path[1].hash = <<-1, 0, -2>>
    /\ merkle_path[2].hash = <<-1, -1, 0, -2, -1, 1, -2, -2>>

====
